---- MODULE Spec2Model ----
(***************************************************************************)
(* Model of the mutable transaction (MTX) and its CoinSelector:            *)
(* script templating, signature slot filling, coin selection, funding and  *)
(* fee subtraction.                                                        *)
(***************************************************************************)
EXTENDS Integers, Sequences, FiniteSets, TLC

VARIABLES
  inputs,       \* MTX.inputs: sequence of [prevout, script, witness, sequence]
  outputs,      \* MTX.outputs: sequence of [value, script]
  view,         \* MTX.view: the set of coins known to the MTX, keyed by outpoint
  changeIndex,  \* MTX.changeIndex
  locktime,     \* MTX.locktime
  version,      \* MTX.version
  sel,          \* the CoinSelector of the funding attempt in progress
  pc,           \* position of the running operation
  candidates,   \* the caller's candidate coin list given to fund/select
  options,      \* the caller's options given to fund/select
  ret,          \* outcome of the last completed call
  hist          \* history: whether input 0 was templated, and the keys whose
                \* signInput call on it returned since

vars ==
  <<inputs, outputs, view, changeIndex, locktime, version, sel, pc, candidates,
    options, ret, hist>>

mtxVars == <<inputs, outputs, view, changeIndex, locktime, version>>

(***************************************************************************)
(* Bounds of the model.                                                    *)
(***************************************************************************)
\* Largest number of keys in a multisig script.
MaxN == 3

\* Key identifiers; the last one is in no multisig script.
Keys == 1 .. (MaxN + 1)

(***************************************************************************)
(* Scripts. A hash is modelled by its preimage (an injective hash).        *)
(***************************************************************************)
NoScript == [type |-> "none"]

PubkeyScript(k) == [type |-> "pubkey", key |-> k]

\* Script.fromPubkeyhash
fromPubkeyhash(h) == [type |-> "pubkeyhash", hash |-> h]

MultisigScript(m, keys) == [type |-> "multisig", m |-> m, keys |-> keys]

ScripthashScript(redeem) == [type |-> "scripthash", hash |-> redeem]

WitnessScripthashScript(redeem) == [type |-> "witnessscripthash", hash |-> redeem]

WitnessPubkeyhashScript(h) == [type |-> "witnesspubkeyhash", hash |-> h]

\* A witness program of a version this code does not know.
UnknownProgram == [type |-> "witnessunknown"]

\* A script matching no template.
NonStandardScript == [type |-> "nonstandard"]

\* An unspendable data carrier script (OP_RETURN).
NulldataScript == [type |-> "nulldata"]

isPubkey(s) == s.type = "pubkey"

isPubkeyhash(s) == s.type = "pubkeyhash"

isMultisig(s) == s.type = "multisig"

isScripthash(s) == s.type = "scripthash"

isWitnessScripthash(s) == s.type = "witnessscripthash"

isWitnessPubkeyhash(s) == s.type = "witnesspubkeyhash"

isProgram(s) == s.type \in {"witnessscripthash", "witnesspubkeyhash", "witnessunknown"}

\* Serialized size of a script in bytes (33-byte keys, 20- and 32-byte hashes).
ScriptSize(s) ==
  CASE s.type = "pubkey" -> 35
    [] s.type = "pubkeyhash" -> 25
    [] s.type = "multisig" -> 3 + 34 * Len(s.keys)
    [] s.type = "scripthash" -> 23
    [] s.type = "witnessscripthash" -> 34
    [] s.type = "witnesspubkeyhash" -> 22
    [] s.type = "witnessunknown" -> 34
    [] OTHER -> 1

(***************************************************************************)
(* Vectors (Script code / Witness items). Index 0 is the first element.    *)
(***************************************************************************)
OP_0 == [kind |-> "zero"]

Undefined == [kind |-> "undef"]

KeyItem(k) == [kind |-> "key", key |-> k]

RawItem(s) == [kind |-> "raw", script |-> s]

\* Script.sign(hash, key, type): the signature of `key` over the digest of
\* (prev, value, version).
SigItem(k, prev, value, sighashVersion) ==
  [kind |-> "sig", key |-> k, prev |-> prev, value |-> value,
   version |-> sighashVersion]

\* vector.get(i)
Get(v, i) == IF i >= 0 /\ i < Len(v) THEN v[i + 1] ELSE Undefined

\* vector.getSmall(i): the small integer of an element, -1 when it is none.
GetSmall(v, i) == IF Get(v, i).kind = "zero" THEN 0 ELSE 0 - 1

\* vector.set(i, x)
Set(v, i, x) ==
  IF i < Len(v) THEN [v EXCEPT ![i + 1] = x]
  ELSE v \o [j \in 1 .. (i - Len(v)) |-> Undefined] \o <<x>>

\* vector.push(x)
Push(v, x) == Append(v, x)

\* vector.pop(): the vector without its last element.
Pop(v) == IF Len(v) = 0 THEN v ELSE SubSeq(v, 1, Len(v) - 1)

\* vector.remove(i)
Remove(v, i) == SubSeq(v, 1, i) \o SubSeq(v, i + 2, Len(v))

\* Byte length of a pushed element.
ItemSize(e) ==
  CASE e.kind = "sig" -> 72
    [] e.kind = "key" -> 33
    [] e.kind = "raw" -> ScriptSize(e.script)
    [] OTHER -> 0

\* Script.isSignature: a buffer of 9 to 73 bytes.
isSignature(e) == e.kind \in {"sig", "key", "raw"} /\ ItemSize(e) \in 9 .. 73

\* Script.isKey: a buffer of 33 to 65 bytes.
isKey(e) == e.kind \in {"sig", "key", "raw"} /\ ItemSize(e) \in 33 .. 65

\* vector.getRedeem(): the last element read as a script.
getRedeem(v) ==
  IF Len(v) = 0 THEN NoScript
  ELSE IF v[Len(v)].kind = "raw" THEN v[Len(v)].script
  ELSE NoScript

\* util.indexOf(keys, key): first position (from 0) of key, -1 when absent.
IndexOf(keys, k) ==
  IF \E i \in 1 .. Len(keys) : keys[i] = k
  THEN (CHOOSE i \in 1 .. Len(keys) :
          keys[i] = k /\ \A j \in 1 .. (i - 1) : keys[j] # k) - 1
  ELSE 0 - 1

(***************************************************************************)
(* Key rings (the signer's key material).                                  *)
(***************************************************************************)
\* A ring: its key, its redeem script (or NoScript) and whether it is a
\* witness ring.
Ring(k, script, witness) == [publicKey |-> k, script |-> script, witness |-> witness]

\* ring.getKeyHash()
getKeyHash(ring) == ring.publicKey

\* The ring's witness program: of its script if it has one, of its key otherwise.
RingProgram(ring) ==
  IF ~ring.witness THEN NoScript
  ELSE IF ring.script # NoScript THEN WitnessScripthashScript(ring.script)
  ELSE WitnessPubkeyhashScript(getKeyHash(ring))

\* ring.getRedeem(hash): the ring's program or script with that hash.
RingGetRedeem(ring, hash) ==
  IF RingProgram(ring) # NoScript /\ hash = RingProgram(ring) THEN RingProgram(ring)
  ELSE IF ring.script # NoScript /\ hash = ring.script THEN ring.script
  ELSE NoScript

(***************************************************************************)
(* Script Templater.                                                       *)
(***************************************************************************)
\* MTX.prototype.scriptVector: [ok, vector].
scriptVector(prev, vector, ring) ==
  IF isPubkey(prev) THEN
    IF prev.key # ring.publicKey THEN [ok |-> FALSE, vector |-> vector]
    ELSE [ok |-> TRUE, vector |-> Set(vector, 0, OP_0)]
  ELSE IF isPubkeyhash(prev) THEN
    IF prev.hash # getKeyHash(ring) THEN [ok |-> FALSE, vector |-> vector]
    ELSE [ok |-> TRUE,
          vector |-> Set(Set(vector, 0, OP_0), 1, KeyItem(ring.publicKey))]
  ELSE IF isMultisig(prev) THEN
    IF IndexOf(prev.keys, ring.publicKey) = 0 - 1
    THEN [ok |-> FALSE, vector |-> vector]
    ELSE LET n == Len(prev.keys)
             len == IF Len(vector) > n + 1 THEN Len(vector) ELSE n + 1
         IN \* vector.set(0, OP_0), then vector.set(i + 1, OP_0) for i < n
            [ok |-> TRUE,
             vector |-> [i \in 1 .. len |-> IF i <= n + 1 THEN OP_0 ELSE vector[i]]]
  ELSE [ok |-> FALSE, vector |-> vector]

\* Variant of isTemplated: the witness is not looked at.
isTemplatedScriptOnly(input) == Len(input.script) # 0

\* The early return of scriptInput: the input already has content.
isTemplated(input) == Len(input.script) # 0 \/ Len(input.witness) # 0

\* MTX.prototype.scriptInput: [ok, script, witness] for one input.
scriptInput(input, coin, ring) ==
  LET prev == coin.script
      Same(ok) == [ok |-> ok, script |-> input.script, witness |-> input.witness]
  IN
  IF isTemplated(input) THEN Same(TRUE)
  ELSE IF isScripthash(prev) THEN
    LET redeem == RingGetRedeem(ring, prev.hash) IN
    IF redeem = NoScript THEN Same(FALSE)
    ELSE IF isProgram(redeem) THEN
      IF isWitnessScripthash(redeem) THEN
        LET inner == RingGetRedeem(ring, redeem.hash) IN
        IF inner = NoScript THEN Same(FALSE)
        ELSE LET r == scriptVector(inner, input.witness, ring) IN
             IF ~r.ok THEN Same(FALSE)
             ELSE [ok |-> TRUE,
                   script |-> Push(input.script, RawItem(redeem)),
                   witness |-> Push(r.vector, RawItem(inner))]
      ELSE IF isWitnessPubkeyhash(redeem) THEN
        LET r == scriptVector(fromPubkeyhash(getKeyHash(ring)), input.witness, ring) IN
        IF ~r.ok THEN Same(FALSE)
        ELSE [ok |-> TRUE,
              script |-> Push(input.script, RawItem(redeem)),
              witness |-> r.vector]
      ELSE Same(FALSE)
    ELSE
      LET r == scriptVector(redeem, input.script, ring) IN
      IF ~r.ok THEN Same(FALSE)
      ELSE [ok |-> TRUE,
            script |-> Push(r.vector, RawItem(redeem)),
            witness |-> input.witness]
  ELSE IF isProgram(prev) THEN
    IF isWitnessScripthash(prev) THEN
      LET redeem == RingGetRedeem(ring, prev.hash) IN
      IF redeem = NoScript THEN Same(FALSE)
      ELSE LET r == scriptVector(redeem, input.witness, ring) IN
           IF ~r.ok THEN Same(FALSE)
           ELSE [ok |-> TRUE,
                 script |-> input.script,
                 witness |-> Push(r.vector, RawItem(redeem))]
    ELSE IF isWitnessPubkeyhash(prev) THEN
      LET r == scriptVector(fromPubkeyhash(prev.hash), input.witness, ring) IN
      IF ~r.ok THEN Same(FALSE)
      ELSE [ok |-> TRUE, script |-> input.script, witness |-> r.vector]
    ELSE Same(FALSE)
  ELSE
    LET r == scriptVector(prev, input.script, ring) IN
    [ok |-> r.ok, script |-> r.vector, witness |-> input.witness]

(***************************************************************************)
(* Signature Slot Filler.                                                  *)
(***************************************************************************)
\* The outcome of signVector: "true", "false" or "throw", and the vector.
Filled(r, vector) == [ret |-> r, vector |-> vector]

\* Number of elements after the first that are structurally signatures.
CountSigs(v) == Cardinality({i \in 2 .. Len(v) : isSignature(v[i])})

\* Variant of PadTo: the loop runs once too often (<= for <).
PadToOneMore(v, n) ==
  IF Len(v) - 1 <= n THEN v \o [j \in 1 .. (n + 1 - (Len(v) - 1)) |-> OP_0] ELSE v

\* The padding loop: push OP_0 while fewer than n slots follow the marker.
PadTo(v, n) ==
  IF Len(v) - 1 < n THEN v \o [j \in 1 .. (n - (Len(v) - 1)) |-> OP_0] ELSE v

\* Variant of RemoveEmpty: the loop stops at the first slot, from the end,
\* that is not empty.
RemoveTrailingEmpty(v) ==
  IF Len(v) <= 1 \/ v[Len(v)].kind # "zero" THEN v
  ELSE LET last == CHOOSE i \in 1 .. Len(v) :
                     /\ i = 1 \/ v[i].kind # "zero"
                     /\ \A j \in (i + 1) .. Len(v) : v[j].kind = "zero"
       IN SubSeq(v, 1, last)

\* The finalize loop: remove, from the end, every slot after the marker
\* whose small integer is 0.
RemoveEmpty(v) ==
  IF Len(v) = 0 THEN v
  ELSE <<v[1]>> \o SelectSeq(Tail(v), LAMBDA e : e.kind # "zero")

\* The trimming loop: pop while more than m signatures are counted.
TrimTo(v, total, m) ==
  IF total > m THEN SubSeq(v, 1, Len(v) - (total - m)) ELSE v

\* The sanity checks closing the finalize step (a failed assert throws).
fillChecked(prev, compact) ==
  IF Len(compact) - 1 # prev.m THEN Filled("throw", compact)
  ELSE Filled("true", compact)

\* "All signatures added. Finalize.", then the return value.
fillFinalize(prev, vector, total) ==
  IF total >= prev.m
  THEN fillChecked(prev, TrimTo(RemoveEmpty(vector), total, prev.m))
  ELSE Filled("false", vector)

\* The write of the signature without the test that the slot is empty.
fillPlaceNoEmptyTest(prev, padded, sig, ring, keyIndex, total) ==
  IF IndexOf(prev.keys, ring.publicKey) = 0 - 1 THEN Filled("false", padded)
  ELSE IF keyIndex < Len(padded) /\ total < prev.m
  THEN fillFinalize(prev, Set(padded, keyIndex, sig), total + 1)
  ELSE fillFinalize(prev, padded, total)

\* The write of the signature without the key lookup before it.
fillPlaceAnyKey(prev, padded, sig, ring, keyIndex, total) ==
  IF keyIndex < Len(padded) /\ total < prev.m /\ GetSmall(padded, keyIndex) = 0
  THEN fillFinalize(prev, Set(padded, keyIndex, sig), total + 1)
  ELSE fillFinalize(prev, padded, total)

\* The key lookup and the write of the signature into its slot.
fillPlace(prev, padded, sig, ring, keyIndex, total) ==
  IF IndexOf(prev.keys, ring.publicKey) = 0 - 1 THEN Filled("false", padded)
  ELSE IF keyIndex < Len(padded) /\ total < prev.m /\ GetSmall(padded, keyIndex) = 0
  THEN fillFinalize(prev, Set(padded, keyIndex, sig), total + 1)
  ELSE fillFinalize(prev, padded, total)

\* The already-finalized short cut, then the padding.
fillCounted(prev, vector, sig, ring, keyIndex, total) ==
  IF total = prev.m /\ Len(vector) - 1 = prev.m THEN Filled("true", vector)
  ELSE fillPlace(prev, PadTo(vector, Len(prev.keys)), sig, ring, keyIndex, total)

\* The multisig branch of signVector once the marker was checked; keyIndex
\* is the slot the signature goes to.
fillMultisig(prev, vector, sig, ring, keyIndex) ==
  IF Len(vector) - 1 > Len(prev.keys) THEN Filled("false", vector)
  ELSE fillCounted(prev, vector, sig, ring, keyIndex, CountSigs(vector))

\* Variant of signMultisig: the signature goes to the first empty slot.
signMultisigFirstEmpty(prev, vector, sig, ring) ==
  fillMultisig(prev, vector, sig, ring,
               IF \E i \in 1 .. (Len(vector) - 1) : GetSmall(vector, i) = 0
               THEN CHOOSE i \in 1 .. (Len(vector) - 1) :
                      /\ GetSmall(vector, i) = 0
                      /\ \A j \in 1 .. (i - 1) : GetSmall(vector, j) # 0
               ELSE Len(vector))

\* The multisig branch with the slot the code computes: the key's index in
\* the script's key list, offset by one for the leading marker.
signMultisig(prev, vector, sig, ring) ==
  fillMultisig(prev, vector, sig, ring, IndexOf(prev.keys, ring.publicKey) + 1)

\* MTX.prototype.signVector: [ret, vector], ret one of "true", "false", "throw".
signVector(prev, vector, sig, ring) ==
  IF isPubkey(prev) THEN
    IF ring.publicKey # prev.key THEN Filled("false", vector)
    ELSE IF isSignature(Get(vector, 0)) THEN Filled("true", vector)
    ELSE IF GetSmall(vector, 0) # 0 THEN Filled("throw", vector)
    ELSE Filled("true", Set(vector, 0, sig))
  ELSE IF isPubkeyhash(prev) THEN
    IF getKeyHash(ring) # prev.hash THEN Filled("false", vector)
    ELSE IF isSignature(Get(vector, 0)) THEN Filled("true", vector)
    ELSE IF ~isKey(Get(vector, 1)) THEN Filled("throw", vector)
    ELSE Filled("true", Set(vector, 0, sig))
  ELSE IF isMultisig(prev) THEN
    IF GetSmall(vector, 0) # 0 THEN Filled("throw", vector)
    ELSE signMultisig(prev, vector, sig, ring)
  ELSE Filled("false", vector)

(***************************************************************************)
(* Signature Producer and signInput.                                       *)
(***************************************************************************)
\* The value signInput hands to the digest.
DigestValue(coin) == 0

\* What signInput settles before signing: the script to sign for (prev), the
\* vector (the witness or the script), whether its last element is a redeem
\* script to set aside, the sighash version; thrown when an expected redeem
\* script is missing.
Plan(thrown, prev, useWitness, redeem, sighashVersion) ==
  [thrown |-> thrown, prev |-> prev, useWitness |-> useWitness, redeem |-> redeem,
   version |-> sighashVersion]

\* The witness-program switch of signInput.
signProgram(input, prev, redeem) ==
  IF isWitnessScripthash(prev) THEN
    Plan(getRedeem(input.witness) = NoScript, getRedeem(input.witness), TRUE, TRUE, 1)
  ELSE IF isWitnessPubkeyhash(prev) THEN Plan(FALSE, fromPubkeyhash(prev.hash), TRUE, FALSE, 1)
  ELSE Plan(FALSE, prev, FALSE, redeem, 0)

\* The head of signInput: the pay-to-script-hash redeem script, then the switch.
signPlan(input, coin) ==
  IF isScripthash(coin.script) THEN
    IF getRedeem(input.script) = NoScript THEN Plan(TRUE, NoScript, FALSE, FALSE, 0)
    ELSE signProgram(input, getRedeem(input.script), TRUE)
  ELSE signProgram(input, coin.script, FALSE)

\* The input after signVector returned r on the vector: the redeem script set
\* aside is pushed back, unless signVector threw.
signStore(input, p, vector, r) ==
  [ret |-> r.ret,
   script |-> IF p.useWitness THEN input.script
              ELSE IF p.redeem /\ r.ret # "throw"
              THEN Push(r.vector, vector[Len(vector)]) ELSE r.vector,
   witness |-> IF ~p.useWitness THEN input.witness
               ELSE IF p.redeem /\ r.ret # "throw"
               THEN Push(r.vector, vector[Len(vector)]) ELSE r.vector]

\* The tail of signInput: the signature, then signVector on the vector.
signFill(input, coin, ring, p, vector) ==
  signStore(input, p, vector,
            signVector(p.prev, IF p.redeem THEN Pop(vector) ELSE vector,
                       SigItem(ring.publicKey, p.prev, DigestValue(coin), p.version),
                       ring))

\* signInput under the plan p.
signPlanned(input, coin, ring, p) ==
  IF p.thrown
  THEN [ret |-> "throw", script |-> input.script, witness |-> input.witness]
  ELSE signFill(input, coin, ring, p,
                IF p.useWitness THEN input.witness ELSE input.script)

\* MTX.prototype.signInput: [ret, script, witness].
signInput(input, coin, ring) == signPlanned(input, coin, ring, signPlan(input, coin))

(***************************************************************************)
(* Structural signed-ness checks.                                          *)
(***************************************************************************)
\* Variant of isVectorSigned: the marker slot is counted as a signature slot.
isVectorSignedNoMarker(prev, vector) ==
  IF isPubkey(prev) THEN isSignature(Get(vector, 0))
  ELSE IF isPubkeyhash(prev) THEN isSignature(Get(vector, 0))
  ELSE IF isMultisig(prev) THEN
    /\ \A i \in 2 .. Len(vector) : isSignature(vector[i])
    /\ Len(vector) = prev.m
  ELSE FALSE

\* MTX.prototype.isVectorSigned
isVectorSigned(prev, vector) ==
  IF isPubkey(prev) THEN isSignature(Get(vector, 0))
  ELSE IF isPubkeyhash(prev) THEN isSignature(Get(vector, 0))
  ELSE IF isMultisig(prev) THEN
    /\ \A i \in 2 .. Len(vector) : isSignature(vector[i])
    /\ Len(vector) - 1 = prev.m
  ELSE FALSE

\* The witness-program switch of isInputSigned.
signedProgram(input, prev, redeem) ==
  IF isWitnessScripthash(prev) THEN
    Plan(getRedeem(input.witness) = NoScript, getRedeem(input.witness), TRUE, TRUE, 1)
  ELSE IF isWitnessPubkeyhash(prev) THEN Plan(FALSE, fromPubkeyhash(prev.hash), TRUE, FALSE, 1)
  ELSE Plan(FALSE, prev, FALSE, redeem, 0)

\* The head of isInputSigned; thrown stands for its early "return false".
signedPlan(input, coin) ==
  IF isScripthash(coin.script) THEN
    IF getRedeem(input.script) = NoScript THEN Plan(TRUE, NoScript, FALSE, FALSE, 0)
    ELSE signedProgram(input, getRedeem(input.script), TRUE)
  ELSE signedProgram(input, coin.script, FALSE)

\* The tail of isInputSigned: the vector without the redeem script set aside.
signedVector(input, p) ==
  IF p.redeem THEN Pop(IF p.useWitness THEN input.witness ELSE input.script)
  ELSE IF p.useWitness THEN input.witness ELSE input.script

\* isInputSigned under the plan p.
signedPlanned(input, p) ==
  IF p.thrown THEN FALSE ELSE isVectorSigned(p.prev, signedVector(input, p))

\* MTX.prototype.isInputSigned
isInputSigned(input, coin) == signedPlanned(input, signedPlan(input, coin))

\* The input after isInputSigned, the redeem script it set aside not pushed
\* back.
signedRestoredNoPush(input, p) ==
  IF p.thrown \/ ~p.redeem THEN input
  ELSE IF p.useWitness THEN [input EXCEPT !.witness = Pop(@)]
  ELSE [input EXCEPT !.script = Pop(@)]

\* The input after isInputSigned under the plan p: the redeem script that
\* vector.pop() set aside is pushed back.
signedRestored(input, p) ==
  IF p.thrown \/ ~p.redeem THEN input
  ELSE IF p.useWitness THEN [input EXCEPT !.witness = Push(Pop(@), @[Len(@)])]
  ELSE [input EXCEPT !.script = Push(Pop(@), @[Len(@)])]

\* The input MTX.prototype.isInputSigned leaves behind.
inputAfterSigned(input, coin) == signedRestored(input, signedPlan(input, coin))

(***************************************************************************)
(* Coins and the MTX's view.                                               *)
(***************************************************************************)
\* A coin: outpoint, value, previous script, height (-1: unconfirmed),
\* coinbase flag.
Coin(id, value, script, height, coinbase) ==
  [id |-> id, value |-> value, script |-> script, height |-> height,
   coinbase |-> coinbase]

\* view.getOutput(input): the coins of the view at the input's outpoint
\* (empty on a miss).
ViewCoins(v, prevout) == {c \in v : c.id = prevout}

\* A 32-bit unsigned integer, held as its two 16-bit halves.
Word(hi, lo) == [hi |-> hi, lo |-> lo]

\* 0xffffffff, the sequence of a new input: final, the locktime disabled.
SEQUENCE_FINAL == Word(65535, 65535)

\* An input spending outpoint id, with empty script and witness
\* (Input.fromCoin / Input.fromOptions of a bare outpoint).
NewInput(id) ==
  [prevout |-> id, script |-> <<>>, witness |-> <<>>, sequence |-> SEQUENCE_FINAL]

\* No selector, no call outcome yet.
NoSelector == [state |-> "none"]

NoOptions == [selection |-> "none"]

NoRet == [op |-> "none", key |-> 0, val |-> "none"]

Ret(op, key, val) == [op |-> op, key |-> key, val |-> val]

(***************************************************************************)
(* Templating and signing one input: the specification SpecSign.           *)
(***************************************************************************)
\* The key lists of the multisig scripts: keys 1 .. n in order.
KeyList(n) == [i \in 1 .. n |-> i]

\* The scripts a vector is built for: pubkey and pubkey-hash of key 1, and
\* every m-of-n multisig up to MaxN keys.
BaseScripts ==
  {PubkeyScript(1), fromPubkeyhash(1)}
    \cup UNION {{MultisigScript(m, KeyList(n)) : m \in 1 .. n} : n \in 1 .. MaxN}

\* The supported previous-script patterns.
SupportedPatterns ==
  BaseScripts
    \cup {ScripthashScript(b) : b \in BaseScripts}
    \cup {WitnessScripthashScript(b) : b \in BaseScripts}
    \cup {ScripthashScript(WitnessScripthashScript(b)) : b \in BaseScripts}
    \cup {WitnessPubkeyhashScript(1), ScripthashScript(WitnessPubkeyhashScript(1))}

\* Patterns templating refuses.
UnsupportedPatterns ==
  {NonStandardScript, UnknownProgram, ScripthashScript(NonStandardScript),
   ScripthashScript(UnknownProgram), WitnessScripthashScript(NonStandardScript)}

\* The script a ring must hold to resolve the redeem scripts of prev
\* (NoScript when prev needs none).
InnerScript(prev) ==
  IF isScripthash(prev) THEN
    IF isWitnessScripthash(prev.hash) THEN prev.hash.hash
    ELSE IF isProgram(prev.hash) THEN NoScript
    ELSE prev.hash
  ELSE IF isWitnessScripthash(prev) THEN prev.hash
  ELSE NoScript

\* The script the signature vector answers: prev with its wrapping removed.
VectorScript(prev) ==
  IF isScripthash(prev) THEN
    IF isWitnessScripthash(prev.hash) THEN prev.hash.hash
    ELSE IF isWitnessPubkeyhash(prev.hash) THEN fromPubkeyhash(prev.hash.hash)
    ELSE prev.hash
  ELSE IF isWitnessScripthash(prev) THEN prev.hash
  ELSE IF isWitnessPubkeyhash(prev) THEN fromPubkeyhash(prev.hash)
  ELSE prev

\* The coin input 0 spends (the view holds exactly that coin in SpecSign).
TheCoin == CHOOSE c \in view : c.id = inputs[1].prevout

InitSign ==
  /\ \E prev \in SupportedPatterns \cup UnsupportedPatterns :
       view = {Coin(1, 50000, prev, 1, FALSE)}
  /\ inputs = <<NewInput(1)>>
  /\ outputs = <<>>
  /\ changeIndex = 0 - 1
  /\ sel = NoSelector
  /\ pc = "idle"
  /\ candidates = <<>>
  /\ options = NoOptions
  /\ ret = NoRet
  /\ locktime = 0
  /\ version = 1
  /\ hist = [templated |-> FALSE, signers |-> {}, again |-> FALSE]

\* mtx.scriptInput(0, coin, ring) for a ring with key k, holding the coin's
\* redeem script or none, witness-enabled or not.
ScriptInputAct(k, hasScript, w) ==
  LET coin == TheCoin
      ring == Ring(k, IF hasScript THEN InnerScript(coin.script) ELSE NoScript, w)
      r == scriptInput(inputs[1], coin, ring)
  IN /\ inputs' = [inputs EXCEPT ![1].script = r.script, ![1].witness = r.witness]
     /\ ret' = Ret("scriptInput", k, IF r.ok THEN "true" ELSE "false")
     /\ hist' = [hist EXCEPT !.templated = @ \/ r.ok, !.again = FALSE]
     /\ UNCHANGED <<locktime, version,
                    outputs, view, changeIndex, sel, pc, candidates, options>>

\* mtx.signInput(0, coin, ring) for a ring with key k.
SignInputAct(k) ==
  LET coin == TheCoin
      r == signInput(inputs[1], coin, Ring(k, NoScript, FALSE))
  IN /\ inputs' = [inputs EXCEPT ![1].script = r.script, ![1].witness = r.witness]
     /\ ret' = Ret("signInput", k, r.ret)
     /\ hist' = [hist EXCEPT
                  !.signers = IF r.ret = "throw" THEN @ ELSE @ \cup {k},
                  !.again = (ret.op = "signInput" /\ ret.key = k)]
     /\ UNCHANGED <<locktime, version,
                    outputs, view, changeIndex, sel, pc, candidates, options>>

\* mtx.isInputSigned(0, coin)
IsInputSignedAct ==
  /\ ret' = Ret("isInputSigned", 0,
                IF isInputSigned(inputs[1], TheCoin) THEN "true" ELSE "false")
  /\ inputs' = [inputs EXCEPT ![1] = inputAfterSigned(@, TheCoin)]
  /\ hist' = [hist EXCEPT !.again = FALSE]
  /\ UNCHANGED <<locktime, version,
                 outputs, view, changeIndex, sel, pc, candidates, options>>

NextSign ==
  \/ \E k \in Keys, hasScript \in BOOLEAN, w \in BOOLEAN : ScriptInputAct(k, hasScript, w)
  \/ \E k \in Keys : SignInputAct(k)
  \/ IsInputSignedAct

SpecSign == InitSign /\ [][NextSign]_vars

(***************************************************************************)
(* Properties of templating and signing (checked under SpecSign).          *)
(***************************************************************************)
\* The script the signature slots of input 0 answer.
SignScript == VectorScript(TheCoin.script)

\* Whether the slots of a coin with script prev live in the witness.
UsesWitness(prev) == isProgram(prev) \/ (isScripthash(prev) /\ isProgram(prev.hash))

\* Whether the vector of a coin with script prev ends with a redeem script.
HasRedeemTail(prev) ==
  \/ isWitnessScripthash(prev)
  \/ isScripthash(prev) /\ ~isWitnessPubkeyhash(prev.hash)

\* The signature slots of input 0: its vector without the redeem script.
SlotVector ==
  LET v == IF UsesWitness(TheCoin.script) THEN inputs[1].witness ELSE inputs[1].script
  IN IF HasRedeemTail(TheCoin.script) THEN Pop(v) ELSE v

\* The keys of the script's key list that have signed.
AuthSigners ==
  {k \in hist.signers : \E i \in 1 .. Len(SignScript.keys) : SignScript.keys[i] = k}

\* The signature of key k on input 0.
ExpectedSig(k) ==
  SigItem(k, SignScript, DigestValue(TheCoin),
          IF UsesWitness(TheCoin.script) THEN 1 ELSE 0)

\* The marker followed by the signatures of the keys in S, in key-list order.
CanonVector(S) ==
  LET ks == SelectSeq(SignScript.keys, LAMBDA k : k \in S)
  IN <<OP_0>> \o [i \in 1 .. Len(ks) |-> ExpectedSig(ks[i])]

\* Input 0 spends a multisig coin (bare or wrapped) and was templated.
MultisigTemplated ==
  /\ TheCoin.script \in SupportedPatterns
  /\ isMultisig(SignScript)
  /\ hist.templated

\* C2: multisig filling is order-independent: once m distinct authorized keys
\* have signed a templated m-of-n input, in whatever order, the vector is the
\* marker followed by their signatures in key-list order.
C2_OrderIndependent ==
  (MultisigTemplated /\ Cardinality(AuthSigners) = SignScript.m)
    => SlotVector = CanonVector(AuthSigners)

\* C2 witness: a 2-of-3 input signed by the first and the last key.
C2_Witness ==
  /\ MultisigTemplated
  /\ SignScript.m = 2 /\ Len(SignScript.keys) = 3
  /\ hist.signers = {1, 3}
  /\ ret.op = "signInput"

\* C3: a templated multisig vector never holds more than m non-empty
\* signature slots nor more than n slots after the marker, whatever keys sign.
C3_SlotBounds ==
  MultisigTemplated =>
    /\ Cardinality({i \in 2 .. Len(SlotVector) : SlotVector[i].kind # "zero"})
         <= SignScript.m
    /\ Len(SlotVector) - 1 <= Len(SignScript.keys)

\* C3 witness: every key, the unauthorized one included, has signed a 1-of-3 input.
C3_Witness ==
  /\ MultisigTemplated
  /\ SignScript.m = 1 /\ Len(SignScript.keys) = 3
  /\ hist.signers = Keys

\* The correct key(s) have signed input 0.
FullySignedBy ==
  IF isMultisig(SignScript) THEN Cardinality(AuthSigners) >= SignScript.m
  ELSE 1 \in hist.signers

\* C4: for every supported pattern, templating followed by signing with the
\* correct key(s) ends with isInputSigned true.
C4_TemplateSignSigned ==
  (TheCoin.script \in SupportedPatterns /\ hist.templated /\ FullySignedBy)
    => isInputSigned(inputs[1], TheCoin)

\* C4 witness: a P2SH-wrapped witness-script-hash 2-of-3 input, fully signed.
C4_Witness ==
  /\ TheCoin.script =
       ScripthashScript(WitnessScripthashScript(MultisigScript(2, KeyList(3))))
  /\ hist.templated /\ FullySignedBy
  /\ ret = Ret("isInputSigned", 0, "true")

\* C5: an m-of-n input has n+1 slots after templating and while fewer than m
\* authorized keys have signed (each such fill returns false, isInputSigned is
\* false); from the m-th authorized signer on, the fill returns true,
\* isInputSigned is true and the vector has exactly m+1 slots.
C5_MultisigScenario ==
  MultisigTemplated =>
    LET a == Cardinality(AuthSigners)
        m == SignScript.m
        n == Len(SignScript.keys)
        authFill == ret.op = "signInput" /\ ret.key \in AuthSigners
    IN /\ a < m => /\ Len(SlotVector) = n + 1
                   /\ ~isInputSigned(inputs[1], TheCoin)
                   /\ authFill => ret.val = "false"
       /\ a >= m => /\ Len(SlotVector) = m + 1
                    /\ isInputSigned(inputs[1], TheCoin)
                    /\ authFill => ret.val = "true"

\* C5 witness: the second authorized signer has just filled a bare 2-of-3 input.
C5_Witness ==
  /\ TheCoin.script = MultisigScript(2, KeyList(3))
  /\ hist.templated
  /\ Cardinality(AuthSigners) = 2
  /\ ret.op = "signInput" /\ ret.val = "true"
  /\ Len(inputs[1].script) = 3

\* C6: once an input was templated, every further scriptInput on it returns
\* true and leaves its script and witness as they were.
C6_TemplateIdempotent ==
  [][(hist.templated /\ ret'.op = "scriptInput")
       => (ret'.val = "true" /\ inputs' = inputs)]_vars

\* C6 witness: scriptInput by a ring with another key, called on a
\* witness-pubkey-hash input already templated and signed.
C6_Witness ==
  /\ TheCoin.script = WitnessPubkeyhashScript(1)
  /\ hist.templated
  /\ 1 \in hist.signers
  /\ ret = Ret("scriptInput", 2, "true")

\* Whether key k is authorized for the script the slots answer: the
\* pay-to-pubkey key, the key of the pay-to-pubkey-hash hash, or one of the
\* multisig keys.
Authorized(k) ==
  CASE isPubkey(SignScript) -> k = SignScript.key
    [] isPubkeyhash(SignScript) -> k = SignScript.hash
    [] isMultisig(SignScript) ->
         \E i \in 1 .. Len(SignScript.keys) : SignScript.keys[i] = k
    [] OTHER -> FALSE

\* Input 0 spends a coin of a supported pattern and was templated.
Templated == TheCoin.script \in SupportedPatterns /\ hist.templated

\* The slots hold a finalized multisig vector: m signatures in m slots.
Finalized ==
  /\ isMultisig(SignScript)
  /\ CountSigs(SlotVector) = SignScript.m
  /\ Len(SlotVector) - 1 = SignScript.m

\* C24 (as stated): on a templated input, unsigned, partially or fully
\* signed, a fill with a key not authorized for the script returns false
\* and leaves the vector as it was.
C24_UnauthorizedFillFails ==
  [][(Templated /\ ret'.op = "signInput" /\ ~Authorized(ret'.key))
       => (ret'.val = "false" /\ inputs' = inputs)]_vars

\* C24 (amended): on a templated input a fill with a key not authorized for
\* the script leaves the vector as it was; it returns false, except on a
\* multisig vector already finalized (m signatures in m slots), where it
\* returns true.
C24_UnauthorizedFillKeepsVector ==
  [][(Templated /\ ret'.op = "signInput" /\ ~Authorized(ret'.key))
       => /\ inputs' = inputs
          /\ ret'.val = (IF Finalized THEN "true" ELSE "false")]_vars

\* C24 witness: the unauthorized key was used on a 2-of-3 input that one
\* authorized key had signed.
C24_Witness ==
  /\ Templated
  /\ isMultisig(SignScript)
  /\ SignScript.m = 2 /\ Len(SignScript.keys) = 3
  /\ Cardinality(AuthSigners) = 1
  /\ ret = Ret("signInput", MaxN + 1, "false")

\* C25: a fill by the key that made the fill before it, with the same
\* signature, leaves the script and the witness of the input exactly as the
\* first fill left them, for every pattern and every vector state.
C25_FillIdempotentPerKey ==
  [][(ret.op = "signInput" /\ ret'.op = "signInput" /\ ret'.key = ret.key)
       => inputs' = inputs]_vars

\* C25 witness: the first key filled a templated 2-of-3 input twice in a
\* row, the input holding that one signature in three slots.
C25_Witness ==
  /\ Templated
  /\ isMultisig(SignScript)
  /\ SignScript.m = 2 /\ Len(SignScript.keys) = 3
  /\ hist.signers = {1}
  /\ hist.again
  /\ ret = Ret("signInput", 1, "false")
  /\ CountSigs(SlotVector) = 1
  /\ Len(SlotVector) = 4

\* C29 (as stated): every signature signInput places commits to the value
\* of the coin being spent.
C29_DigestCommitsValue ==
  \A i \in 1 .. Len(SlotVector) :
    SlotVector[i].kind = "sig" => SlotVector[i].value = TheCoin.value

(***************************************************************************)
(* Protocol constants (constants.tx, constants.WITNESS_SCALE_FACTOR).      *)
(***************************************************************************)
MIN_FEE == 10000

MIN_RELAY == 10000

MAX_FEE == 10000000

COINBASE_MATURITY == 100

WITNESS_SCALE_FACTOR == 4

(***************************************************************************)
(* Sizes, fees and dust.                                                   *)
(***************************************************************************)
\* encoding.sizeVarint
sizeVarint(n) == IF n < 253 THEN 1 ELSE IF n <= 65535 THEN 3 ELSE 5

\* Sum of the values of a sequence of coins or outputs.
RECURSIVE SumValues(_)
SumValues(q) == IF Len(q) = 0 THEN 0 ELSE q[1].value + SumValues(Tail(q))

\* btcutils.getMinFee
getMinFee(size, rate) ==
  IF (rate * size) \div 1000 = 0 /\ rate > 0 THEN rate ELSE (rate * size) \div 1000

\* btcutils.getRoundFee
getRoundFee(size, rate) ==
  IF rate * ((size + 999) \div 1000) = 0 /\ rate > 0 THEN rate
  ELSE rate * ((size + 999) \div 1000)

\* output.getSize(): value, script length, script.
OutputSize(output) == 8 + sizeVarint(ScriptSize(output.script)) + ScriptSize(output.script)

\* output.getDustThreshold(rate)
getDustThreshold(output, rate) ==
  IF output.script.type = "nulldata" THEN 0
  ELSE IF isProgram(output.script)
  THEN 3 * getMinFee(OutputSize(output) + 32 + 4 + 1 + (107 \div WITNESS_SCALE_FACTOR) + 4, rate)
  ELSE 3 * getMinFee(OutputSize(output) + 32 + 4 + 1 + 107 + 4, rate)

\* output.isDust(rate)
isDust(output, rate) == output.value < getDustThreshold(output, rate)

\* output.getHash(): the address hash of the output, none for a script
\* without address.
NoHash == [type |-> "none"]

OutputHash(output) ==
  IF output.script.type \in {"pubkeyhash", "scripthash", "witnesspubkeyhash",
                             "witnessscripthash", "pubkey"}
  THEN output.script ELSE NoHash

\* The size estimateSize adds for one input spending a coin with script prev
\* (no estimator callback).
InputScriptSize(prev) ==
  IF isPubkey(prev) THEN 1 + 1 + 73
  ELSE IF isPubkeyhash(prev) THEN 1 + 1 + 73 + 1 + 33
  ELSE IF isMultisig(prev)
  THEN 1 + 74 * prev.m + sizeVarint(1 + 74 * prev.m)
  ELSE IF isWitnessPubkeyhash(prev)
  THEN (1 + 1 + 73 + 1 + 33 + WITNESS_SCALE_FACTOR - 1) \div WITNESS_SCALE_FACTOR
  ELSE IF isScripthash(prev) THEN 2 + 257
  ELSE IF isWitnessScripthash(prev)
  THEN (1 + 257 + WITNESS_SCALE_FACTOR - 1) \div WITNESS_SCALE_FACTOR
  ELSE 110

RECURSIVE SumInputSizes(_)
SumInputSizes(q) ==
  IF Len(q) = 0 THEN 0 ELSE InputScriptSize(q[1].script) + SumInputSizes(Tail(q))

RECURSIVE SumOutputSizes(_)
SumOutputSizes(q) ==
  IF Len(q) = 0 THEN 0 ELSE OutputSize(q[1]) + SumOutputSizes(Tail(q))

\* MTX.prototype.estimateSize of a transaction whose inputs all resolve to
\* the coins given.
estimateSize(tx) ==
  4 + sizeVarint(Len(tx.inputs)) + Len(tx.inputs) * 40
    + sizeVarint(Len(tx.outputs)) + SumOutputSizes(tx.outputs) + 4
    + SumInputSizes(tx.inputs)

(***************************************************************************)
(* Coin Selector.                                                          *)
(***************************************************************************)
\* options.subtractFee: unset, true, an output index, or a list of addresses.
SubtractUnset == [form |-> "unset", index |-> 0, addrs |-> {}]

SubtractAny == [form |-> "any", index |-> 0, addrs |-> {}]

SubtractIndex(i) == [form |-> "index", index |-> i, addrs |-> {}]

SubtractAddrs(hashes) == [form |-> "addrs", index |-> 0, addrs |-> hashes]

\* An output.
Output(value, script) == [value |-> value, script |-> script]

\* new CoinSelector(tx, options): the selector on a clone of the MTX.
CoinSelector(txInputs, txOutputs, opts) ==
  [state |-> "new", error |-> "none", availableFunds |-> 0 - 1,
   requiredFunds |-> 0 - 1,
   tx |-> [inputs |-> txInputs, outputs |-> txOutputs],
   coins |-> <<>>, outputValue |-> 0, index |-> 0, chosen |-> <<>>,
   change |-> 0, fee |-> 0,
   selection |-> opts.selection,
   shouldSubtract |-> opts.subtractFee.form # "unset",
   subtractFee |-> opts.subtractFee,
   height |-> opts.height, confirmations |-> opts.confirmations,
   hardFee |-> opts.hardFee, rate |-> opts.rate, maxFee |-> opts.maxFee,
   round |-> opts.round, changeAddress |-> opts.changeAddress]

\* sortAge's key without the substitution for an unconfirmed coin.
AgeKeyRaw(coin) == coin.height

\* sortAge's key: the height, an unconfirmed coin last.
AgeKey(coin) == IF coin.height = 0 - 1 THEN 2147483647 ELSE coin.height

\* The orders in which q can be rearranged.
Orders(q) ==
  {[i \in 1 .. Len(q) |-> q[f[i]]] :
     f \in {g \in [1 .. Len(q) -> 1 .. Len(q)] :
              \A i, j \in 1 .. Len(q) : g[i] = g[j] => i = j}}

\* The outcomes of this.coins.sort(...) in init: any order under the random
\* comparator ('all' and 'random'), an order of ascending age keys under
\* sortAge.
SortOutcomes(selection, coins) ==
  IF selection \in {"all", "random"} THEN Orders(coins)
  ELSE IF selection = "age"
  THEN {q \in Orders(coins) :
          \A i \in 1 .. (Len(q) - 1) : AgeKey(q[i]) <= AgeKey(q[i + 1])}
  ELSE {coins}

\* The messages of the errors thrown as FundingError.
FundingErrorMessages == {"Bad selection type", "Not enough funds.", "Fee is too high."}

\* The messages of the errors thrown as plain Error.
PlainErrorMessages == {"Subtraction index does not exist.", "Could not subtract fee."}

\* init up to the switch: the copy of the coins and the reset.
initReset(s, coins) ==
  [s EXCEPT !.coins = coins, !.outputValue = SumValues(s.tx.outputs),
            !.index = 0, !.chosen = <<>>, !.change = 0, !.fee = 0,
            !.tx.inputs = <<>>]

\* init taking an unknown strategy for age.
initDefaultAge(s, sorted) == initReset(s, sorted)

\* CoinSelector.prototype.init, sorted being the outcome of the sort (the
\* coins as given when the strategy is unknown).
init(s, sorted) ==
  IF s.selection \notin {"all", "random", "age"}
  THEN [initReset(s, sorted) EXCEPT !.state = "failed",
                                    !.error = "Bad selection type"]
  ELSE initReset(s, sorted)

\* tx.getInputValue() of the selector's clone.
getInputValue(s) == SumValues(s.tx.inputs)

\* CoinSelector.prototype.total
total(s) == IF s.shouldSubtract THEN s.outputValue ELSE s.outputValue + s.fee

\* isFull comparing against the output value alone.
isFullNoFee(s) == getInputValue(s) >= s.outputValue

\* CoinSelector.prototype.isFull
isFull(s) == getInputValue(s) >= total(s)

\* The coinbase test without the maturity period.
isMatureNoPeriod(s, coin) ==
  ~coin.coinbase \/ (coin.height # 0 - 1 /\ ~(s.height + 1 < coin.height))

\* The coinbase test of isSpendable.
isMature(s, coin) ==
  ~coin.coinbase
    \/ (coin.height # 0 - 1 /\ ~(s.height + 1 < coin.height + COINBASE_MATURITY))

\* The confirmations test taking an unconfirmed coin as deep enough.
isConfirmedUnconfirmed(s, coin) ==
  IF s.confirmations > 0 THEN
    IF coin.height = 0 - 1 THEN TRUE
    ELSE ~(s.height - coin.height < 0)
           /\ ~(s.height - coin.height + 1 < s.confirmations)
  ELSE TRUE

\* The confirmations test of isSpendable.
isConfirmed(s, coin) ==
  IF s.confirmations > 0 THEN
    IF coin.height = 0 - 1 THEN s.confirmations <= 0
    ELSE ~(s.height - coin.height < 0)
           /\ ~(s.height - coin.height + 1 < s.confirmations)
  ELSE TRUE

\* CoinSelector.prototype.isSpendable
isSpendable(s, coin) ==
  s.height = 0 - 1 \/ (isMature(s, coin) /\ isConfirmed(s, coin))

\* CoinSelector.prototype.getFee
getFee(s, size) ==
  IF s.round
  THEN IF getRoundFee(size, s.rate) > MAX_FEE THEN MAX_FEE ELSE getRoundFee(size, s.rate)
  ELSE IF getMinFee(size, s.rate) > MAX_FEE THEN MAX_FEE ELSE getMinFee(size, s.rate)

\* The selector with the coin put in front of the chosen coins.
addCoinFront(s, coin) ==
  [s EXCEPT !.tx.inputs = Append(@, coin), !.chosen = <<coin>> \o @]

\* The selector after this.tx.addInput(coin); this.chosen.push(coin).
addCoin(s, coin) ==
  [s EXCEPT !.tx.inputs = Append(@, coin), !.chosen = Append(@, coin)]

\* The loop of fund stopping when full under every strategy.
stopsWhenFullAlways(s) == isFull(s)

\* The loop of fund never stopping before the coins are exhausted.
stopsWhenFullNever(s) == FALSE

\* Whether the loop of fund stops after adding a coin.
stopsWhenFull(s) == s.selection # "all" /\ isFull(s)

\* CoinSelector.prototype.fund: the loop over the remaining coins.
RECURSIVE fund(_)
fund(s) ==
  IF ~(s.index < Len(s.coins)) THEN s
  ELSE IF ~isSpendable(s, s.coins[s.index + 1])
  THEN fund([s EXCEPT !.index = @ + 1])
  ELSE IF stopsWhenFull(addCoin(s, s.coins[s.index + 1]))
  THEN [addCoin(s, s.coins[s.index + 1]) EXCEPT !.index = @ + 1]
  ELSE fund([addCoin(s, s.coins[s.index + 1]) EXCEPT !.index = @ + 1])

\* The end of select with the change taken over the output value alone.
selectEndNoFee(s) ==
  IF ~isFull(s)
  THEN [s EXCEPT !.state = "failed", !.error = "Not enough funds.",
                 !.availableFunds = getInputValue(s), !.requiredFunds = total(s)]
  ELSE [s EXCEPT !.state = "selected", !.change = getInputValue(s) - s.outputValue]

\* The end of select, the error carrying the output value as required.
selectEndNoAmounts(s) ==
  IF ~isFull(s)
  THEN [s EXCEPT !.state = "failed", !.error = "Not enough funds.",
                 !.availableFunds = getInputValue(s),
                 !.requiredFunds = s.outputValue]
  ELSE [s EXCEPT !.state = "selected", !.change = getInputValue(s) - total(s)]

\* The end of select: the funds check, the error carrying the amounts
\* gathered and required (FundingError's availableFunds and requiredFunds),
\* then the change.
selectEnd(s) ==
  IF ~isFull(s)
  THEN [s EXCEPT !.state = "failed", !.error = "Not enough funds.",
                 !.availableFunds = getInputValue(s), !.requiredFunds = total(s)]
  ELSE [s EXCEPT !.state = "selected", !.change = getInputValue(s) - total(s)]

\* CoinSelector.prototype.selectHard
selectHard(s, fee) ==
  fund([s EXCEPT !.fee = IF fee > MAX_FEE THEN MAX_FEE ELSE fee])

\* The placeholder change output of selectEstimate.
DummyChange(s) == Output(0, s.changeAddress)

\* selectEstimate up to its first size estimate: the initial fee, fund, the
\* placeholder change output.
selectEstimateStart(s, fee) ==
  [fund([s EXCEPT !.fee = fee]) EXCEPT !.tx.outputs = Append(@, DummyChange(s)),
                                       !.state = "estimate"]

\* The loop condition of selectEstimate; select ends when it is false.
estimateLoop(s) ==
  IF ~isFull(s) /\ s.index < Len(s.coins) THEN s ELSE selectEnd(s)

\* One turn of the loop of selectEstimate once the fee was derived.
estimateFund(s) ==
  IF s.maxFee > 0 /\ s.fee > s.maxFee
  THEN [s EXCEPT !.state = "failed", !.error = "Fee is too high."]
  ELSE IF ~isFull(s) THEN estimateLoop(fund(s))
  ELSE estimateLoop(s)

\* One turn of the loop of selectEstimate, resumed with the estimated size.
estimateTurn(s) == estimateFund([s EXCEPT !.fee = getFee(s, estimateSize(s.tx))])

\* CoinSelector.prototype.select up to its first suspension (or its end).
select(s, sorted) ==
  IF init(s, sorted).state = "failed" THEN init(s, sorted)
  ELSE IF s.hardFee # 0 - 1 THEN selectEnd(selectHard(init(s, sorted), s.hardFee))
  ELSE selectEstimateStart(init(s, sorted), MIN_FEE)

(***************************************************************************)
(* MTX.subtractFee and MTX.fund.                                           *)
(***************************************************************************)
\* The least value without the dust threshold.
subtractMinNoDust(fee, output) == fee

\* The least value an output must hold for fee to be taken from it.
subtractMin(fee, output) == fee + getDustThreshold(output, MIN_RELAY)

\* The outcome of a call that changes the outputs or throws.
OutputsResult(ok, error, outs) == [ok |-> ok, error |-> error, outputs |-> outs]

\* subtractFee with a numeric index.
subtractIndex(outs, fee, index) ==
  IF (index + 1) \notin DOMAIN outs
  THEN OutputsResult(FALSE, "Subtraction index does not exist.", outs)
  ELSE IF outs[index + 1].value < subtractMin(fee, outs[index + 1])
  THEN OutputsResult(FALSE, "Could not subtract fee.", outs)
  ELSE OutputsResult(TRUE, "none", [outs EXCEPT ![index + 1].value = @ - fee])

\* The outputs at which the scan of subtractFee stops.
subtractStops(outs, fee, selector) ==
  {i \in DOMAIN outs :
     /\ selector.form = "addrs" =>
          (OutputHash(outs[i]) # NoHash /\ OutputHash(outs[i]) \in selector.addrs)
     /\ outs[i].value >= subtractMin(fee, outs[i])}

\* The last of a non-empty set of positions, taken for the first.
FirstFromEnd(S) == CHOOSE i \in S : \A j \in S : j <= i

\* The first of a non-empty set of positions.
First(S) == CHOOSE i \in S : \A j \in S : i <= j

\* subtractFee scanning the outputs in order.
subtractScan(outs, fee, stops) ==
  IF stops = {} THEN OutputsResult(FALSE, "Could not subtract fee.", outs)
  ELSE OutputsResult(TRUE, "none", [outs EXCEPT ![First(stops)].value = @ - fee])

\* MTX.prototype.subtractFee
subtractFee(outs, fee, selector) ==
  IF selector.form = "index" THEN subtractIndex(outs, fee, selector.index)
  ELSE subtractScan(outs, fee, subtractStops(outs, fee, selector))

\* The inputs MTX.fund adds for the chosen coins.
fundInputs(s) == [i \in 1 .. Len(s.chosen) |-> NewInput(s.chosen[i].id)]

\* The coins MTX.fund adds to the view.
fundCoins(s) == {s.chosen[i] : i \in 1 .. Len(s.chosen)}

\* The subtraction step of MTX.fund.
fundSubtract(outs, s) ==
  IF s.shouldSubtract THEN subtractFee(outs, s.fee, s.subtractFee)
  ELSE OutputsResult(TRUE, "none", outs)

\* The change step of MTX.fund: the change output is added, and removed
\* again when it is dust.
fundChange(outs, s) ==
  IF isDust(Output(s.change, s.changeAddress), MIN_RELAY)
  THEN [outputs |-> outs, changeIndex |-> 0 - 1]
  ELSE [outputs |-> Append(outs, Output(s.change, s.changeAddress)),
        changeIndex |-> Len(outs)]

\* tx.hasCoins(view)
hasCoins(ins, v) ==
  Len(ins) > 0 /\ \A i \in 1 .. Len(ins) : ViewCoins(v, ins[i].prevout) # {}

\* The coins the inputs spend.
InputCoins(ins, v) ==
  [i \in 1 .. Len(ins) |-> CHOOSE c \in v : c.id = ins[i].prevout]

\* tx.getFee(view)
mtxGetFee(ins, v, outs) ==
  IF ~hasCoins(ins, v) THEN 0
  ELSE SumValues(InputCoins(ins, v)) - SumValues(outs)

\* The fee the assertion closing MTX.fund expects.
fundExpectedFee(s, index) == IF index = 0 - 1 THEN s.fee + s.change ELSE s.fee

(***************************************************************************)
(* Funding a transaction: the specification SpecFund.                      *)
(***************************************************************************)
\* Largest number of candidate coins.
MaxCoins == 3

\* The change address (its script).
ChangeAddress == fromPubkeyhash(2)

\* The kinds of candidate coins: confirmed, unconfirmed, coinbase, recent.
CoinKinds ==
  << [value |-> 20000, height |-> 1, coinbase |-> FALSE],
     [value |-> 52000, height |-> 0 - 1, coinbase |-> FALSE],
     [value |-> 30000, height |-> 50, coinbase |-> TRUE],
     [value |-> 3000, height |-> 119, coinbase |-> FALSE] >>

\* The candidate lists: up to MaxCoins coins of distinct outpoints.
CandidateLists ==
  UNION {{[i \in 1 .. n |->
             Coin(i, CoinKinds[k[i]].value, fromPubkeyhash(1),
                  CoinKinds[k[i]].height, CoinKinds[k[i]].coinbase)] :
            k \in {f \in [1 .. n -> DOMAIN CoinKinds] :
                     \A i \in 1 .. (n - 1) : f[i] <= f[i + 1]}} :
         n \in 0 .. MaxCoins}

\* The outputs of the transaction to fund.
OutputLists ==
  { <<>>,
    <<Output(49000, fromPubkeyhash(3))>>,
    <<Output(6000, fromPubkeyhash(3)), Output(50000, fromPubkeyhash(1))>> }

\* The fee options given with every height option: estimated, hard.
FeeOptions ==
  { [hardFee |-> 0 - 1, rate |-> MIN_FEE, maxFee |-> 0 - 1, round |-> FALSE],
    [hardFee |-> 1000, rate |-> MIN_FEE, maxFee |-> 0 - 1, round |-> FALSE] }

\* The fee options given with the height unset: estimated under a maximum,
\* rounded, estimated at five times the default rate, hard above the maximum.
MoreFeeOptions ==
  { [hardFee |-> 0 - 1, rate |-> MIN_FEE, maxFee |-> 3000, round |-> FALSE],
    [hardFee |-> 0 - 1, rate |-> MIN_FEE, maxFee |-> 0 - 1, round |-> TRUE],
    [hardFee |-> 0 - 1, rate |-> 5 * MIN_FEE, maxFee |-> 0 - 1, round |-> FALSE],
    [hardFee |-> 5000, rate |-> MIN_FEE, maxFee |-> 3000, round |-> FALSE] }

\* The height of the chain at the time of the funding call.
ChainHeight == 120

\* The chain height and confirmations options: the height is unset (-1) or
\* the height of the chain.
HeightOptions ==
  { [height |-> 0 - 1, confirmations |-> 0 - 1],
    [height |-> ChainHeight, confirmations |-> 0 - 1],
    [height |-> ChainHeight, confirmations |-> 3] }

\* The height and fee options of a funding call.
HeightFeeOptions ==
  (HeightOptions \X FeeOptions)
    \cup ({[height |-> 0 - 1, confirmations |-> 0 - 1]} \X MoreFeeOptions)

\* Options given with the height unset: a confirmation depth, a maximum
\* fee of zero.
UnsetHeightOptions ==
  { [confirmations |-> 3, maxFee |-> 0 - 1],
    [confirmations |-> 0 - 1, maxFee |-> 0] }

\* The options of a funding call.
FundOptions ==
  {[selection |-> sl, subtractFee |-> sb, height |-> hf[1].height,
    confirmations |-> hf[1].confirmations, hardFee |-> hf[2].hardFee,
    rate |-> hf[2].rate, maxFee |-> hf[2].maxFee, round |-> hf[2].round,
    changeAddress |-> ChangeAddress] :
     sl \in {"age", "random", "all"},
     sb \in {SubtractUnset, SubtractAny, SubtractIndex(0)},
     hf \in HeightFeeOptions}
    \cup
  {[selection |-> "oldest", subtractFee |-> SubtractUnset, height |-> 0 - 1,
    confirmations |-> 0 - 1, hardFee |-> f.hardFee, rate |-> f.rate,
    maxFee |-> f.maxFee, round |-> f.round, changeAddress |-> ChangeAddress] :
     f \in FeeOptions}
    \cup
  {[selection |-> "age", subtractFee |-> SubtractUnset, height |-> 0 - 1,
    confirmations |-> hc.confirmations, hardFee |-> 0 - 1, rate |-> MIN_FEE,
    maxFee |-> hc.maxFee, round |-> FALSE, changeAddress |-> ChangeAddress] :
     hc \in UnsetHeightOptions}

InitFund ==
  /\ inputs = <<>>
  /\ outputs \in OutputLists
  /\ view = {}
  /\ changeIndex = 0 - 1
  /\ sel = NoSelector
  /\ pc = "idle"
  /\ candidates \in CandidateLists
  /\ options \in FundOptions
  /\ ret = NoRet
  /\ locktime = 0
  /\ version = 1
  /\ hist = [outputs |-> outputs]

\* MTX.prototype.fund up to the yield: the selector is made on a clone of
\* the transaction and select starts.
FundCall(sorted) ==
  /\ pc = "idle"
  /\ Len(inputs) = 0
  /\ sel' = select(CoinSelector(<<>>, outputs, options), sorted)
  /\ pc' = "selecting"
  /\ UNCHANGED <<locktime, version,
                 inputs, outputs, view, changeIndex, candidates, options, ret, hist>>

\* selectEstimate resumes with the estimated size.
SelectEstimate ==
  /\ pc = "selecting"
  /\ sel.state = "estimate"
  /\ sel' = estimateTurn(sel)
  /\ UNCHANGED <<locktime, version,
                 inputs, outputs, view, changeIndex, pc, candidates, options, ret, hist>>

\* select threw: fund rejects with its error.
FundReject ==
  /\ pc = "selecting"
  /\ sel.state = "failed"
  /\ pc' = "failed"
  /\ ret' = Ret("fund", 0, sel.error)
  /\ UNCHANGED <<locktime, version,
                 inputs, outputs, view, changeIndex, sel, candidates, options, hist>>

\* The end of MTX.fund once the fee was subtracted: change, dust, assertion.
FundFinish(outs) ==
  /\ outputs' = fundChange(outs, sel).outputs
  /\ changeIndex' = fundChange(outs, sel).changeIndex
  /\ IF mtxGetFee(inputs', view', outputs') = fundExpectedFee(sel, changeIndex')
     THEN pc' = "funded" /\ ret' = Ret("fund", 0, "ok")
     ELSE pc' = "failed" /\ ret' = Ret("fund", 0, "AssertionError")

\* select returned: fund resumes after the yield.
FundFill ==
  /\ pc = "selecting"
  /\ sel.state = "selected"
  /\ inputs' = fundInputs(sel)
  /\ view' = view \cup fundCoins(sel)
  /\ IF fundSubtract(outputs, sel).ok
     THEN FundFinish(fundSubtract(outputs, sel).outputs)
     ELSE /\ pc' = "failed"
          /\ ret' = Ret("fund", 0, fundSubtract(outputs, sel).error)
          /\ UNCHANGED <<outputs, changeIndex>>
  /\ UNCHANGED <<locktime, version, sel, candidates, options, hist>>

\* The first byte of a serialized script.
ScriptFirstByte(script) ==
  CASE script.type = "pubkeyhash" -> 118
    [] script.type = "scripthash" -> 169
    [] script.type = "nulldata" -> 106
    [] script.type = "pubkey" -> 33
    [] script.type = "multisig" -> 80 + script.m
    [] OTHER -> 0

\* The rest of a serialized script, as far as scripts of one type and size
\* differ.
ScriptRest(script) ==
  IF script.type \in {"pubkeyhash", "witnesspubkeyhash"} THEN script.hash
  ELSE IF script.type = "pubkey" THEN script.key
  ELSE 0

\* output.toRaw(): the value in eight little-endian bytes (the upper four are
\* zero for the amounts here), the script length, the script.
OutputRaw(output) ==
  << output.value % 256, (output.value \div 256) % 256,
     (output.value \div 65536) % 256, output.value \div 16777216,
     ScriptSize(output.script), ScriptFirstByte(output.script),
     ScriptRest(output.script) >>

\* util.cmp(a, b) < 0 for serializations of one length.
RawLess(a, b) ==
  \E i \in 1 .. Len(a) : a[i] < b[i] /\ \A j \in 1 .. (i - 1) : a[j] = b[j]

\* The outcomes of this.outputs.sort(sortOutputs): position i of the sorted
\* list takes the output of position f[i]; equal outputs in any order.
sortOutputsOrders(outs) ==
  {f \in [1 .. Len(outs) -> 1 .. Len(outs)] :
     /\ \A i, j \in 1 .. Len(outs) : f[i] = f[j] => i = j
     /\ \A i, j \in 1 .. Len(outs) :
          i < j => ~RawLess(OutputRaw(outs[f[j]]), OutputRaw(outs[f[i]]))}

\* The outcomes of this.inputs.sort(sortInputs): by outpoint.
sortInputsOrders(ins) ==
  {f \in [1 .. Len(ins) -> 1 .. Len(ins)] :
     /\ \A i, j \in 1 .. Len(ins) : f[i] = f[j] => i = j
     /\ \A i, j \in 1 .. Len(ins) :
          i < j => ins[f[i]].prevout <= ins[f[j]].prevout}

\* The list rearranged by f.
Rearranged(q, f) == [i \in 1 .. Len(q) |-> q[f[i]]]

\* sortMembers leaving the change index as it was.
changeIndexKept(f, index) == index

\* this.outputs.indexOf(changeOutput) after the sort by f: the new position
\* of the output object that was at index.
changeIndexAfter(f, index) ==
  IF index = 0 - 1 THEN 0 - 1
  ELSE (CHOOSE i \in DOMAIN f : f[i] = index + 1) - 1

\* MTX.prototype.sortMembers on a funded transaction.
SortMembers(fi, fo) ==
  /\ pc = "funded"
  /\ IF changeIndex # 0 - 1 /\ (changeIndex + 1) \notin DOMAIN outputs
     THEN /\ ret' = Ret("sortMembers", 0, "AssertionError")
          /\ UNCHANGED <<inputs, outputs, changeIndex>>
     ELSE /\ inputs' = Rearranged(inputs, fi)
          /\ outputs' = Rearranged(outputs, fo)
          /\ changeIndex' = changeIndexAfter(fo, changeIndex)
          /\ ret' = Ret("sortMembers", 0, "ok")
  /\ UNCHANGED <<locktime, version, view, sel, pc, candidates, options, hist>>

NextFund ==
  \/ \E sorted \in SortOutcomes(options.selection, candidates) : FundCall(sorted)
  \/ SelectEstimate
  \/ FundReject
  \/ FundFill
  \/ \E fi \in sortInputsOrders(inputs), fo \in sortOutputsOrders(outputs) :
       SortMembers(fi, fo)

SpecFund == InitFund /\ [][NextFund]_vars

(***************************************************************************)
(* Properties of coin selection and funding (checked under SpecFund).      *)
(***************************************************************************)
\* The amount the selection of s must cover: the output value of the
\* transaction to fund, plus the fee unless the fee is subtracted.
Target(s) ==
  IF s.shouldSubtract THEN SumValues(hist.outputs)
  ELSE SumValues(hist.outputs) + s.fee

\* The selector finished, by returning or by throwing.
SelectDone == sel.state \in {"selected", "failed"}

\* C1: when select returns, the chosen coins' values sum to at least the
\* target (output value plus fee, or output value alone when subtracting)
\* and the change is that sum minus the target; whenever the chosen coins
\* fall short of the target select ends with an error.
C1_SelectCoversTarget ==
  /\ sel.state = "selected" =>
       /\ SumValues(sel.chosen) >= Target(sel)
       /\ sel.change = SumValues(sel.chosen) - Target(sel)
  /\ (SelectDone /\ SumValues(sel.chosen) < Target(sel)) =>
       (sel.state = "failed" /\ sel.error # "none")

C1_Witness ==
  /\ sel.state = "selected"
  /\ ~sel.shouldSubtract
  /\ Len(sel.chosen) >= 2
  /\ sel.change > 0
  /\ sel.fee > 0

\* A coinbase coin that is not mature at chain height h.
Immature(coin, h) == coin.coinbase /\ h + 1 < coin.height + COINBASE_MATURITY

\* C7 (as stated): under every strategy, fee mode and configuration no
\* chosen coin is a coinbase coin immature at the height of the chain.
C7_NoImmatureCoinbase ==
  sel.state # "none" =>
    \A i \in 1 .. Len(sel.chosen) : ~Immature(sel.chosen[i], ChainHeight)

\* C7 (amended): when the selector's height option is set, no chosen coin is
\* a coinbase coin immature at that height, under every strategy and fee
\* mode.
C7_NoImmatureCoinbaseAtHeight ==
  (sel.state # "none" /\ sel.height # 0 - 1) =>
    \A i \in 1 .. Len(sel.chosen) : ~Immature(sel.chosen[i], sel.height)

C7_Witness ==
  /\ sel.state = "selected"
  /\ sel.height # 0 - 1
  /\ Len(sel.chosen) > 0
  /\ \E i \in 1 .. sel.index : Immature(sel.coins[i], sel.height)

\* C8: under strategy all, when select returns or fails the chosen coins are
\* exactly the spendable candidates, each once, and select returns only if
\* their total covers the target.
C8_AllChoosesAllSpendable ==
  (SelectDone /\ sel.selection = "all") =>
    /\ {sel.chosen[i] : i \in 1 .. Len(sel.chosen)}
         = {candidates[i] : i \in {j \in 1 .. Len(candidates) :
                                     isSpendable(sel, candidates[j])}}
    /\ \A i, j \in 1 .. Len(sel.chosen) : sel.chosen[i] = sel.chosen[j] => i = j
    /\ sel.state = "selected" => SumValues(sel.chosen) >= Target(sel)

C8_Witness ==
  /\ sel.state = "selected"
  /\ sel.selection = "all"
  /\ Len(sel.chosen) >= 2
  /\ sel.chosen[1].value >= Target(sel)
  /\ Len(sel.chosen) < Len(candidates)

\* The fee the funded transaction pays: input coin values less output values.
PaidFee == SumValues(InputCoins(inputs, view)) - SumValues(outputs)

\* C9: after a successful fund the paid fee equals the selector's fee when
\* the change output is kept and the selector's fee plus change when it was
\* dropped as dust, with or without fee subtraction; neither assertion of
\* fund fails.
C9_FeeReconciles ==
  /\ ret.val # "AssertionError"
  /\ pc = "funded" =>
       /\ changeIndex # 0 - 1 =>
            (PaidFee = sel.fee /\ outputs[changeIndex + 1].value = sel.change)
       /\ changeIndex = 0 - 1 => PaidFee = sel.fee + sel.change

C9_Witness ==
  /\ pc = "funded"
  /\ changeIndex = 0 - 1
  /\ sel.change > 0
  /\ sel.shouldSubtract
  /\ outputs # hist.outputs

(***************************************************************************)
(* Subtracting a fee from the outputs: the specification SpecSubtract.     *)
(***************************************************************************)
\* Largest number of outputs.
MaxOutputs == 3

\* The kinds of outputs: below dust, near dust, small, large, data carrier.
OutputKinds ==
  { Output(5000, fromPubkeyhash(1)), Output(6000, fromPubkeyhash(1)),
    Output(7000, fromPubkeyhash(3)), Output(9000, fromPubkeyhash(1)),
    Output(2000, NulldataScript) }

\* The selectors of subtractFee: none, an index, one address, address lists.
SubtractSelectors ==
  {SubtractAny} \cup {SubtractIndex(i) : i \in 0 .. MaxOutputs}
    \cup {SubtractAddrs(a) : a \in SUBSET {fromPubkeyhash(1), fromPubkeyhash(3)}}

InitSubtract ==
  /\ inputs \in {<<>>, <<NewInput(1), NewInput(2)>>}
  /\ outputs \in UNION {[1 .. n -> OutputKinds] : n \in 0 .. MaxOutputs}
  /\ view = {}
  /\ changeIndex = 0 - 1
  /\ sel = NoSelector
  /\ pc = "idle"
  /\ candidates = <<>>
  /\ options \in {[fee |-> f, subtractFee |-> x] :
                    f \in {1000, 3000}, x \in SubtractSelectors}
  /\ ret = NoRet
  /\ locktime = 0
  /\ version = 1
  /\ hist = [outputs |-> outputs, inputs |-> inputs]

\* A call of MTX.prototype.subtractFee.
SubtractFeeAct ==
  /\ pc = "idle"
  /\ outputs' = subtractFee(outputs, options.fee, options.subtractFee).outputs
  /\ ret' = Ret("subtractFee", 0,
                IF subtractFee(outputs, options.fee, options.subtractFee).ok
                THEN "ok"
                ELSE subtractFee(outputs, options.fee, options.subtractFee).error)
  /\ pc' = "done"
  /\ UNCHANGED <<locktime, version,
                 inputs, view, changeIndex, sel, candidates, options, hist>>

NextSubtract == SubtractFeeAct

SpecSubtract == InitSubtract /\ [][NextSubtract]_vars

\* The outputs the selector of the call makes eligible.
EligibleOutputs ==
  {i \in DOMAIN hist.outputs :
     CASE options.subtractFee.form = "index" -> i = options.subtractFee.index + 1
       [] options.subtractFee.form = "addrs" ->
            OutputHash(hist.outputs[i]) \in options.subtractFee.addrs
       [] OTHER -> TRUE}

\* C10: a successful subtractFee reduced one eligible output by the fee and
\* left it at or above its dust threshold; a failing one reduced no output,
\* and then no eligible output could absorb the fee.
C10_SubtractKeepsDust ==
  ret.op = "subtractFee" =>
    IF ret.val = "ok"
    THEN \E i \in EligibleOutputs :
           /\ outputs = [hist.outputs EXCEPT ![i].value = @ - options.fee]
           /\ outputs[i].value >= getDustThreshold(outputs[i], MIN_RELAY)
    ELSE /\ outputs = hist.outputs
         /\ \A i \in EligibleOutputs :
              hist.outputs[i].value - options.fee
                < getDustThreshold(hist.outputs[i], MIN_RELAY)

C10_Witness ==
  /\ ret.op = "subtractFee"
  /\ ret.val = "ok"
  /\ options.subtractFee.form = "addrs"
  /\ Len(outputs) = MaxOutputs
  /\ outputs[MaxOutputs].value = 7000 - options.fee
  /\ hist.outputs[1].script = fromPubkeyhash(3)

\* The outputs reduced by the call: those whose value is not what it was.
ReducedOutputs == {i \in DOMAIN hist.outputs : outputs[i] # hist.outputs[i]}

\* The eligible outputs that could absorb the fee before the call.
AbsorbingOutputs ==
  {i \in EligibleOutputs :
     hist.outputs[i].value
       >= options.fee + getDustThreshold(hist.outputs[i], MIN_RELAY)}

\* C23: a successful subtractFee leaves the number and order of the outputs
\* and the inputs as they were and reduces exactly one output, by exactly
\* the fee, its script kept; without an index that output is the first in
\* list order that matches the selector and can absorb the fee.
C23_SubtractReducesOne ==
  (ret.op = "subtractFee" /\ ret.val = "ok") =>
    /\ Len(outputs) = Len(hist.outputs)
    /\ inputs = hist.inputs
    /\ \E i \in AbsorbingOutputs :
         /\ ReducedOutputs = {i}
         /\ outputs[i] = Output(hist.outputs[i].value - options.fee,
                                hist.outputs[i].script)
         /\ options.subtractFee.form # "index" =>
              \A j \in AbsorbingOutputs : i <= j

C23_Witness ==
  /\ ret.op = "subtractFee"
  /\ ret.val = "ok"
  /\ options.subtractFee.form = "any"
  /\ Len(inputs) = 2
  /\ Len(outputs) = MaxOutputs
  /\ ReducedOutputs = {2}
  /\ 3 \in AbsorbingOutputs

(***************************************************************************)
(* Further properties of coin selection and funding (under SpecFund).      *)
(***************************************************************************)
\* MTX.fund ended, by returning or by throwing.
FundDone == pc \in {"funded", "failed"}

\* C11 (as stated): a funding call with a hard fee above a set maxFee ends
\* with the fee-too-high error and the MTX has no inputs.
C11_HardFeeAboveMaxFails ==
  (FundDone /\ options.hardFee # 0 - 1 /\ options.maxFee > 0
     /\ options.hardFee > options.maxFee) =>
    (ret.val = "Fee is too high." /\ Len(inputs) = 0)

\* The chosen coins without the one chosen last.
ChosenButLast(s) == SubSeq(s.chosen, 1, Len(s.chosen) - 1)

\* A successful selection by age or random order with an estimated fee and
\* no fee subtraction, at least one coin chosen.
EstimatedSelection ==
  /\ sel.state = "selected"
  /\ sel.selection \in {"age", "random"}
  /\ sel.hardFee = 0 - 1
  /\ ~sel.shouldSubtract
  /\ Len(sel.chosen) > 0

\* C12 (as stated): in such a selection the chosen coins without the last
\* sum to less than the output total plus the reported fee, so that the
\* change is less than the value of the last chosen coin.
C12_NoSuperfluousCoin ==
  EstimatedSelection =>
    /\ SumValues(ChosenButLast(sel)) < SumValues(hist.outputs) + sel.fee
    /\ sel.change < sel.chosen[Len(sel.chosen)].value

\* The larger of two amounts.
Max(a, b) == IF a >= b THEN a ELSE b

\* C12 (amended): in such a selection the chosen coins without the last sum
\* to less than the output total plus the larger of the initial fee
\* (MIN_FEE) and the reported fee, and the change is less than the value of
\* the last chosen coin plus the excess of the initial fee over the
\* reported fee.
C12_NoSuperfluousCoinAtInitialFee ==
  EstimatedSelection =>
    /\ SumValues(ChosenButLast(sel))
         < SumValues(hist.outputs) + Max(MIN_FEE, sel.fee)
    /\ sel.change
         < sel.chosen[Len(sel.chosen)].value + Max(MIN_FEE, sel.fee) - sel.fee

C12_Witness ==
  /\ EstimatedSelection
  /\ Len(sel.chosen) >= 2
  /\ SumValues(hist.outputs) > 0
  /\ SumValues(ChosenButLast(sel)) >= SumValues(hist.outputs) + sel.fee

\* The fee derived from the estimated size of the selector's transaction.
DerivedFee(s) == getFee(s, estimateSize(s.tx))

\* C18 (as stated): a successful selection in estimated-fee mode reports the
\* fee derived from the estimated size of the selector's final transaction
\* (every chosen coin as input, the outputs and the placeholder change).
C18_FeeOfFinalTransaction ==
  (sel.state = "selected" /\ sel.hardFee = 0 - 1) =>
    /\ sel.tx.inputs = sel.chosen
    /\ sel.fee = DerivedFee(sel)

\* The positions of the spendable coins in the selector's working list.
SpendablePositions(s) == {i \in 1 .. Len(s.coins) : isSpendable(s, s.coins[i])}

\* The n-th smallest element of a set of numbers.
Nth(S, n) == CHOOSE x \in S : Cardinality({y \in S : y < x}) = n - 1

\* The subsequence of q at the positions of S, in order.
Restrict(q, S) == [n \in 1 .. Cardinality(S) |-> q[Nth(S, n)]]

\* C19 (as stated): with strategy all the chosen coins are the spendable
\* candidates in the order of the caller's list.
C19_AllKeepsOrder ==
  (SelectDone /\ sel.selection = "all") =>
    sel.chosen = Restrict(candidates, {i \in 1 .. Len(candidates) :
                                          isSpendable(sel, candidates[i])})

\* C19 (amended): with strategy all the selector's working list is some
\* rearrangement of the caller's list, which is left as it was, and the
\* chosen coins are the spendable coins in the order of that rearrangement.
C19_AllKeepsWorkingOrder ==
  (SelectDone /\ sel.selection = "all") =>
    /\ Len(sel.coins) = Len(candidates)
    /\ {sel.coins[i] : i \in 1 .. Len(sel.coins)}
         = {candidates[i] : i \in 1 .. Len(candidates)}
    /\ sel.chosen = Restrict(sel.coins, SpendablePositions(sel))

C19_Witness ==
  /\ sel.state = "selected"
  /\ sel.selection = "all"
  /\ Len(sel.chosen) >= 2
  /\ sel.chosen[1].id > sel.chosen[2].id
  /\ Len(sel.chosen) < Len(candidates)

\* The height by which coins are aged: an unconfirmed coin (height -1) has
\* the largest height there is.
EffectiveHeight(coin) == IF coin.height = 0 - 1 THEN 2147483647 ELSE coin.height

\* C20: with strategy age, at any point of a selection every chosen coin is
\* at most as high as every spendable candidate that was not chosen, an
\* unconfirmed coin counting as highest.
C20_AgeOldestFirst ==
  (sel.state \in {"estimate", "selected", "failed"} /\ sel.selection = "age") =>
    \A i \in 1 .. Len(sel.chosen) : \A j \in 1 .. Len(candidates) :
      (isSpendable(sel, candidates[j])
         /\ \A k \in 1 .. Len(sel.chosen) : sel.chosen[k] # candidates[j])
        => EffectiveHeight(sel.chosen[i]) <= EffectiveHeight(candidates[j])

C20_Witness ==
  /\ sel.state = "selected"
  /\ sel.selection = "age"
  /\ Len(sel.chosen) >= 2
  /\ \E j \in 1 .. Len(candidates) :
       /\ candidates[j].height = 0 - 1
       /\ isSpendable(sel, candidates[j])
       /\ \A k \in 1 .. Len(sel.chosen) : sel.chosen[k] # candidates[j]

\* C13: on a funded transaction, before and after any number of sortMembers
\* calls, changeIndex is -1 exactly if the change was dropped as dust and
\* else the position of the change output (change address, reported
\* change); sortMembers never fails its assertions.
C13_ChangeIndexTracksChange ==
  pc = "funded" =>
    /\ ret.val = "ok"
    /\ IF isDust(Output(sel.change, sel.changeAddress), MIN_RELAY)
       THEN changeIndex = 0 - 1
       ELSE /\ (changeIndex + 1) \in DOMAIN outputs
            /\ outputs[changeIndex + 1] = Output(sel.change, sel.changeAddress)

C13_Witness ==
  /\ pc = "funded"
  /\ ret.op = "sortMembers"
  /\ changeIndex # 0 - 1
  /\ changeIndex + 1 < Len(outputs)
  /\ Len(inputs) >= 2

\* C15 (as stated): an error of subtractFee is of the FundingError kind.
C15_SubtractErrorIsFundingError ==
  (ret.op = "subtractFee" /\ ret.val # "ok") => ret.val \in FundingErrorMessages

\* The strategy given is none of age, random and all.
UnknownStrategy == options.selection \notin {"age", "random", "all"}

\* The selector failed before any coin was examined or chosen.
FailedBeforeCoins ==
  /\ sel.state = "failed"
  /\ sel.index = 0
  /\ Len(sel.chosen) = 0
  /\ Len(sel.tx.inputs) = 0

Depth(coin, h) == IF coin.height = 0 - 1 THEN 0 ELSE h - coin.height + 1

\* C21 (as stated): with a minimum confirmation depth configured no chosen
\* coin is below that depth, whatever the selector's height option.
C21_NoShallowCoin ==
  (sel.state # "none" /\ sel.confirmations > 0) =>
    \A i \in 1 .. Len(sel.chosen) :
      Depth(sel.chosen[i], sel.height) >= sel.confirmations

\* C21 (amended): with a minimum confirmation depth configured and the
\* selector's height option set, no chosen coin is below that depth at that
\* height, an unconfirmed coin having depth 0, under every strategy.
C21_NoShallowCoinAtHeight ==
  (sel.state # "none" /\ sel.confirmations > 0 /\ sel.height # 0 - 1) =>
    \A i \in 1 .. Len(sel.chosen) :
      Depth(sel.chosen[i], sel.height) >= sel.confirmations

C21_Witness ==
  /\ sel.state = "selected"
  /\ sel.confirmations > 0
  /\ sel.height # 0 - 1
  /\ Len(sel.chosen) > 0
  /\ \E i \in 1 .. sel.index : sel.coins[i].height = 0 - 1
  /\ \E i \in 1 .. sel.index :
       sel.coins[i].height # 0 - 1
         /\ Depth(sel.coins[i], sel.height) < sel.confirmations

\* C22 (as stated): in estimated-fee mode with a maximum fee configured
\* (any value but -1), select never succeeds with a fee above the maximum.
C22_MaxFeeEnforced ==
  (sel.state = "selected" /\ sel.hardFee = 0 - 1 /\ sel.maxFee # 0 - 1) =>
    sel.fee <= sel.maxFee

\* The candidates the selector may spend.
SpendableCandidates ==
  SelectSeq(candidates, LAMBDA coin : isSpendable(sel, coin))

\* C30: when select fails with insufficient funds every candidate was
\* examined and every spendable one chosen, the spendable candidates sum to
\* less than the target at the fee in effect, and the error carries the
\* amount gathered and the amount required; so select succeeds whenever
\* it ends with spendable candidates that cover the target at that fee
\* and the fee is not too high.
C30_FailsOnlyWhenExhausted ==
  /\ (sel.state = "failed" /\ sel.error = "Not enough funds.") =>
       /\ sel.index = Len(sel.coins)
       /\ Len(sel.chosen) = Len(SpendableCandidates)
       /\ \A i \in 1 .. Len(SpendableCandidates) :
            \E j \in 1 .. Len(sel.chosen) : sel.chosen[j] = SpendableCandidates[i]
       /\ SumValues(SpendableCandidates) < Target(sel)
       /\ sel.availableFunds = SumValues(SpendableCandidates)
       /\ sel.requiredFunds = Target(sel)
  /\ (SelectDone /\ sel.error \notin {"Fee is too high.", "Bad selection type"}
        /\ SumValues(SpendableCandidates) >= Target(sel)) =>
       sel.state = "selected"

C30_Witness ==
  /\ sel.state = "failed"
  /\ sel.error = "Not enough funds."
  /\ sel.hardFee = 0 - 1
  /\ sel.selection = "age"
  /\ Len(sel.chosen) = 2
  /\ Len(candidates) = 3
  /\ Len(hist.outputs) = 1
  /\ sel.availableFunds = 23000
  /\ sel.requiredFunds > SumValues(hist.outputs)
  /\ pc = "failed"

\* C31 (as stated): when fund fails, for whatever reason, the MTX is as it
\* was before the call: no inputs, the outputs it had, the same view and
\* the same changeIndex.
C31_FailedFundLeavesMTX ==
  pc = "failed" =>
    /\ Len(inputs) = 0
    /\ outputs = hist.outputs
    /\ view = {}
    /\ changeIndex = 0 - 1

(***************************************************************************)
(* Adding inputs: the specification SpecInputs.                            *)
(***************************************************************************)
\* view.addCoin(coin): the view maps an outpoint to one coin.
viewAddCoin(v, coin) == {c \in v : c.id # coin.id} \cup {coin}

\* The inputs and the view after a call of addInput.
InputsView(ins, v) == [inputs |-> ins, view |-> v]

\* addInput of a coin, the view left as it was.
addInputCoinNoView(ins, v, coin) == InputsView(Append(ins, NewInput(coin.id)), v)

\* addInput(coin): input.fromCoin, view.addCoin, push.
addInputCoin(ins, v, coin) ==
  InputsView(Append(ins, NewInput(coin.id)), viewAddCoin(v, coin))

\* addInput(outpoint) and addInput(options): the input is pushed.
addInputBare(ins, v, prevout) == InputsView(Append(ins, NewInput(prevout)), v)

\* The outpoints inputs are added for.
Outpoints == 1 .. MaxCoins

\* The output an outpoint refers to.
OutputAt(prevout) == Output(10000 * prevout, fromPubkeyhash(1))

\* The coins a caller holds for the outpoints: unconfirmed or confirmed.
KnownCoins ==
  {Coin(id, OutputAt(id).value, OutputAt(id).script, h, FALSE) :
     id \in Outpoints, h \in {0 - 1, 10}}

\* A prior transaction: its outputs are the outpoints 1 and 2.
PriorTX == [outputs |-> <<OutputAt(1), OutputAt(2)>>, coinbase |-> FALSE]

\* The outpoint of output index of the prior transaction.
PriorOutpoint(index) == index + 1

\* Coin.fromTX(tx, index, height)
coinFromTX(tx, index, height) ==
  Coin(PriorOutpoint(index), tx.outputs[index + 1].value,
       tx.outputs[index + 1].script, height, tx.coinbase)

\* No coin came with the input.
NoCoin == [id |-> 0]

\* How an input was added.
Added(form, prevout, coin) == [form |-> form, prevout |-> prevout, coin |-> coin]

InitInputs ==
  /\ inputs = <<>>
  /\ outputs = <<>>
  /\ view = {}
  /\ changeIndex = 0 - 1
  /\ sel = NoSelector
  /\ pc = "idle"
  /\ candidates = <<>>
  /\ options = NoOptions
  /\ ret = NoRet
  /\ locktime = 0
  /\ version = 1
  /\ hist = [added |-> <<>>]

\* addInput(coin)
AddInputCoin(coin) ==
  /\ Len(inputs) < MaxCoins
  /\ inputs' = addInputCoin(inputs, view, coin).inputs
  /\ view' = addInputCoin(inputs, view, coin).view
  /\ hist' = [hist EXCEPT !.added = Append(@, Added("coin", coin.id, coin))]
  /\ ret' = Ret("addInput", Len(inputs), "ok")
  /\ UNCHANGED <<locktime, version,
                 outputs, changeIndex, sel, pc, candidates, options>>

\* addInput(tx, index): the coin is made from the transaction's output, at
\* height -1.
AddInputTX(tx, index) ==
  /\ Len(inputs) < MaxCoins
  /\ inputs' = addInputCoin(inputs, view, coinFromTX(tx, index, 0 - 1)).inputs
  /\ view' = addInputCoin(inputs, view, coinFromTX(tx, index, 0 - 1)).view
  /\ hist' = [hist EXCEPT !.added = Append(@, Added("tx", PriorOutpoint(index),
                                                   coinFromTX(tx, index, 0 - 1)))]
  /\ ret' = Ret("addInput", Len(inputs), "ok")
  /\ UNCHANGED <<locktime, version,
                 outputs, changeIndex, sel, pc, candidates, options>>

\* addInput(outpoint)
AddInputOutpoint(prevout) ==
  /\ Len(inputs) < MaxCoins
  /\ inputs' = addInputBare(inputs, view, prevout).inputs
  /\ view' = addInputBare(inputs, view, prevout).view
  /\ hist' = [hist EXCEPT !.added = Append(@, Added("outpoint", prevout, NoCoin))]
  /\ ret' = Ret("addInput", Len(inputs), "ok")
  /\ UNCHANGED <<locktime, version,
                 outputs, changeIndex, sel, pc, candidates, options>>

\* addInput(options), the options naming the outpoint.
AddInputOptions(prevout) ==
  /\ Len(inputs) < MaxCoins
  /\ inputs' = addInputBare(inputs, view, prevout).inputs
  /\ view' = addInputBare(inputs, view, prevout).view
  /\ hist' = [hist EXCEPT !.added = Append(@, Added("options", prevout, NoCoin))]
  /\ ret' = Ret("addInput", Len(inputs), "ok")
  /\ UNCHANGED <<locktime, version,
                 outputs, changeIndex, sel, pc, candidates, options>>

NextInputs ==
  \/ \E coin \in KnownCoins : AddInputCoin(coin)
  \/ \E index \in 0 .. (Len(PriorTX.outputs) - 1) : AddInputTX(PriorTX, index)
  \/ \E prevout \in Outpoints : AddInputOutpoint(prevout)
  \/ \E prevout \in Outpoints : AddInputOptions(prevout)

SpecInputs == InitInputs /\ [][NextInputs]_vars

\* The positions of the inputs added with a coin for the outpoint.
CoinAdds(prevout) ==
  {j \in 1 .. Len(hist.added) :
     hist.added[j].form \in {"coin", "tx"} /\ hist.added[j].prevout = prevout}

\* The last element of a non-empty set of positions.
Last(S) == CHOOSE i \in S : \A j \in S : j <= i

ownOutput(ring, coin) ==
  CASE coin.script.type = "pubkey" -> coin.script.key = ring.publicKey
    [] coin.script.type \in {"pubkeyhash", "witnesspubkeyhash"} ->
         coin.script.hash = getKeyHash(ring)
    [] coin.script.type = "multisig" ->
         ~ring.witness /\ ring.script # NoScript /\ coin.script = ring.script
    [] coin.script.type = "scripthash" ->
         IF ring.witness THEN coin.script.hash = RingProgram(ring)
         ELSE ring.script # NoScript /\ coin.script.hash = ring.script
    [] coin.script.type = "witnessscripthash" ->
         ring.witness /\ ring.script # NoScript /\ coin.script.hash = ring.script
    [] OTHER -> FALSE

\* The coin an input resolves to.
CoinAt(v, input) == CHOOSE c \in v : c.id = input.prevout

\* An input left alone by a call.
Skipped(input) == [ret |-> "skip", script |-> input.script, witness |-> input.witness]

\* The input with the script and witness of an outcome.
withOutcome(input, r) == [input EXCEPT !.script = r.script, !.witness = r.witness]

\* The body of the loop of template for one input: [ok, script, witness].
templateInput(input, v, ring) ==
  IF ViewCoins(v, input.prevout) = {}
  THEN [ok |-> FALSE, script |-> input.script, witness |-> input.witness]
  ELSE IF ~ownOutput(ring, CoinAt(v, input))
  THEN [ok |-> FALSE, script |-> input.script, witness |-> input.witness]
  ELSE scriptInput(input, CoinAt(v, input), ring)

\* The signing step of the loop of sign, t being the outcome of scriptInput.
signTemplated(input, coin, ring, t) ==
  IF ~t.ok THEN Skipped(withOutcome(input, t))
  ELSE signInput(withOutcome(input, t), coin, ring)

\* The loop of sign calling signInput without scriptInput before it.
signInputOfUntemplated(input, v, ring) ==
  IF ViewCoins(v, input.prevout) = {} THEN Skipped(input)
  ELSE IF ~ownOutput(ring, CoinAt(v, input)) THEN Skipped(input)
  ELSE signInput(input, CoinAt(v, input), ring)

\* The body of the loop of sign for one input: [ret, script, witness], ret
\* one of "skip", "true", "false", "throw".
signInputOf(input, v, ring) ==
  IF ViewCoins(v, input.prevout) = {} THEN Skipped(input)
  ELSE IF ~ownOutput(ring, CoinAt(v, input)) THEN Skipped(input)
  ELSE signTemplated(input, CoinAt(v, input), ring,
                     scriptInput(input, CoinAt(v, input), ring))

\* The inputs at which the loop of sign throws.
signThrows(ins, v, ring) ==
  {i \in 1 .. Len(ins) : signInputOf(ins[i], v, ring).ret = "throw"}

\* The inputs after the loop of sign: those up to the first throw changed.
signedInputs(ins, v, ring, throws) ==
  [i \in 1 .. Len(ins) |->
     IF \E t \in throws : t < i THEN ins[i]
     ELSE withOutcome(ins[i], signInputOf(ins[i], v, ring))]

\* The count sign returns.
signTotal(ins, v, ring) ==
  Cardinality({i \in 1 .. Len(ins) : signInputOf(ins[i], v, ring).ret = "true"})

\* The count template returns.
templateTotal(ins, v, ring) ==
  Cardinality({i \in 1 .. Len(ins) : templateInput(ins[i], v, ring).ok})

\* Two inputs with coins (of any pattern, and pay-to-pubkey-hash of key 1)
\* and, or not, one whose coin is not in the view, all with empty script and
\* witness.
InitBatch ==
  /\ \E prev \in SupportedPatterns \cup UnsupportedPatterns :
       view = {Coin(1, 50000, prev, 1, FALSE),
               Coin(2, 20000, fromPubkeyhash(1), 1, FALSE)}
  /\ inputs \in {<<NewInput(1), NewInput(2)>>,
                  <<NewInput(1), NewInput(2), NewInput(3)>>}
  /\ outputs = <<>>
  /\ changeIndex = 0 - 1
  /\ sel = NoSelector
  /\ pc = "idle"
  /\ candidates = <<>>
  /\ options = NoOptions
  /\ ret = NoRet
  /\ locktime = 0
  /\ version = 1
  /\ hist = [total |-> 0]

\* mtx.template(ring)
TemplateAct(ring) ==
  /\ inputs' = [i \in 1 .. Len(inputs) |->
                  withOutcome(inputs[i], templateInput(inputs[i], view, ring))]
  /\ ret' = Ret("template", ring.publicKey, "returned")
  /\ hist' = [total |-> templateTotal(inputs, view, ring)]
  /\ UNCHANGED <<locktime, version,
                 outputs, view, changeIndex, sel, pc, candidates, options>>

\* mtx.sign(ring, type) for a ring with a private key.
SignAct(ring) ==
  /\ inputs' = signedInputs(inputs, view, ring, signThrows(inputs, view, ring))
  /\ IF signThrows(inputs, view, ring) = {}
     THEN /\ ret' = Ret("sign", ring.publicKey, "returned")
          /\ hist' = [total |-> signTotal(inputs, view, ring)]
     ELSE /\ ret' = Ret("sign", ring.publicKey, "throw")
          /\ hist' = [total |-> 0]
  /\ UNCHANGED <<locktime, version,
                 outputs, view, changeIndex, sel, pc, candidates, options>>

\* The rings of the callers: any key, holding the redeem script of the
\* first coin or none, witness-enabled or not.
BatchRings ==
  {Ring(k, sc, w) :
     k \in Keys, w \in BOOLEAN,
     sc \in {NoScript, InnerScript(CoinAt(view, inputs[1]).script)}}

\* The inputs at which the loop of isSigned returns false.
signedFails(ins, v) ==
  {i \in 1 .. Len(ins) :
     \/ ViewCoins(v, ins[i].prevout) = {}
     \/ ~isInputSigned(ins[i], CoinAt(v, ins[i]))}

\* The inputs after the loop of isSigned: isInputSigned ran on those up to
\* the first at which the loop returned, if the view has its coin.
inputsAfterSigned(ins, v, fails) ==
  [i \in 1 .. Len(ins) |->
     IF (\E t \in fails : t < i) \/ ViewCoins(v, ins[i].prevout) = {}
     THEN ins[i]
     ELSE inputAfterSigned(ins[i], CoinAt(v, ins[i]))]

\* mtx.isSigned()
IsSignedAct ==
  /\ inputs' = inputsAfterSigned(inputs, view, signedFails(inputs, view))
  /\ ret' = Ret("isSigned", 0,
                IF signedFails(inputs, view) = {} THEN "true" ELSE "false")
  /\ UNCHANGED <<locktime, version,
                 outputs, view, changeIndex, sel, pc, candidates, options, hist>>

\* mtx.isInputSigned(i - 1, coin) with the coin of input i in the view.
IsInputSignedOf(i) ==
  /\ ViewCoins(view, inputs[i].prevout) # {}
  /\ inputs' = [inputs EXCEPT ![i] = inputAfterSigned(@, CoinAt(view, @))]
  /\ ret' = Ret("isInputSigned", i,
                IF isInputSigned(inputs[i], CoinAt(view, inputs[i]))
                THEN "true" ELSE "false")
  /\ UNCHANGED <<locktime, version,
                 outputs, view, changeIndex, sel, pc, candidates, options, hist>>

NextBatch ==
  \/ \E ring \in BatchRings : TemplateAct(ring)
  \/ \E ring \in BatchRings : SignAct(ring)
  \/ IsSignedAct
  \/ \E i \in 1 .. Len(inputs) : IsInputSignedOf(i)

SpecBatch == InitBatch /\ [][NextBatch]_vars

Unresolved == \E i \in 1 .. Len(inputs) : ViewCoins(view, inputs[i].prevout) = {}

\* C26: isSigned and isInputSigned leave the script and the witness of
\* every input and the rest of the MTX as they were, in
\* every input state and for every coin pattern, and isSigned returns false
\* whenever the coin of some input is not in the view.
C26_SignedChecksReadOnly ==
  [][ret'.op \in {"isSigned", "isInputSigned"}
       => /\ inputs' = inputs
          /\ outputs' = outputs /\ view' = view /\ changeIndex' = changeIndex
          /\ locktime' = locktime /\ version' = version
          /\ (ret'.op = "isSigned" /\ Unresolved) => ret'.val = "false"]_vars

\* C26 witness: isSigned returned true on two inputs, the first spending a
\* pay-to-script-hash coin whose script ends with the redeem script.
C26_Witness ==
  /\ ret = Ret("isSigned", 0, "true")
  /\ Len(inputs) = 2
  /\ isScripthash(CoinAt(view, inputs[1]).script)
  /\ getRedeem(inputs[1].script) # NoScript
  /\ isMultisig(VectorScript(CoinAt(view, inputs[1]).script))

(***************************************************************************)
(* Locktime and sequences: the specification SpecLock.                     *)
(***************************************************************************)
\* Bitwise or and bitwise and of two 16-bit halves.
RECURSIVE BitOr(_, _)
BitOr(x, y) ==
  IF x = 0 THEN y
  ELSE IF y = 0 THEN x
  ELSE (IF x % 2 = 1 \/ y % 2 = 1 THEN 1 ELSE 0) + 2 * BitOr(x \div 2, y \div 2)

RECURSIVE BitAnd(_, _)
BitAnd(x, y) ==
  IF x = 0 \/ y = 0 THEN 0
  ELSE (IF x % 2 = 1 /\ y % 2 = 1 THEN 1 ELSE 0) + 2 * BitAnd(x \div 2, y \div 2)

\* a | b and a & b on 32-bit values.
WordOr(a, b) == Word(BitOr(a.hi, b.hi), BitOr(a.lo, b.lo))

WordAnd(a, b) == Word(BitAnd(a.hi, b.hi), BitAnd(a.lo, b.lo))

\* w >>> g for 0 <= g <= 16.
ShiftRight(w, g) ==
  Word((w.hi * 2 ^ (16 - g) + w.lo \div 2 ^ g) \div 65536,
       (w.hi * 2 ^ (16 - g) + w.lo \div 2 ^ g) % 65536)

\* constants.sequence: the granularity of a time delta (512 seconds), the
\* flag of a time delta (bit 22), the mask of the value (the low 16 bits).
SEQUENCE_GRANULARITY == 9

SEQUENCE_TYPE_FLAG == Word(64, 0)

SEQUENCE_MASK == Word(0, 65535)

\* The loop body of setLocktime taking every sequence down to 0xfffffffe.
lockSequenceAlways(seq) == Word(65535, 65534)

\* The loop body of setLocktime: a final sequence is decremented by one.
lockSequence(seq) == IF seq = SEQUENCE_FINAL THEN Word(65535, 65534) ELSE seq

\* The sequence setSequence encodes for a locktime argument.
encodeSequence(delta, seconds) ==
  IF seconds
  THEN WordOr(SEQUENCE_TYPE_FLAG, ShiftRight(delta, SEQUENCE_GRANULARITY))
  ELSE WordAnd(SEQUENCE_MASK, delta)

\* Largest number of inputs of the transaction.
MaxInputs == 2

\* The sequences inputs were added with.
GivenSequences == {SEQUENCE_FINAL, Word(65535, 65534), Word(0, 0)}

\* The locktimes given to setLocktime: a height, a time.
Locktimes == {120, 500000000}

\* The locktime arguments given to setSequence: 0, 10 units of 512, 2^25,
\* 0xffffffff.
Deltas == {Word(0, 0), Word(0, 5120), Word(512, 0), Word(65535, 65535)}

\* The arguments of the last call: of setLocktime, of setSequence.
LockArgs(h) == [height |-> h, index |-> 0, delta |-> Word(0, 0), seconds |-> FALSE]

SequenceArgs(index, delta, seconds) ==
  [height |-> 0, index |-> index, delta |-> delta, seconds |-> seconds]

InitLock ==
  /\ \E n \in 0 .. MaxInputs : \E f \in [1 .. n -> GivenSequences] :
       inputs = [i \in 1 .. n |-> [NewInput(i) EXCEPT !.sequence = f[i]]]
  /\ outputs = <<>>
  /\ view = {}
  /\ changeIndex = 0 - 1
  /\ sel = NoSelector
  /\ pc = "idle"
  /\ candidates = <<>>
  /\ options = NoOptions
  /\ ret = NoRet
  /\ locktime = 0
  /\ version = 1
  /\ hist = LockArgs(0)

\* mtx.setLocktime(h)
SetLocktime(h) ==
  /\ inputs' = [i \in 1 .. Len(inputs) |->
                  [inputs[i] EXCEPT !.sequence = lockSequence(@)]]
  /\ locktime' = h
  /\ ret' = Ret("setLocktime", 0, "returned")
  /\ hist' = LockArgs(h)
  /\ UNCHANGED <<version, outputs, view, changeIndex, sel, pc, candidates, options>>

\* mtx.setSequence(index, delta, seconds)
SetSequence(index, delta, seconds) ==
  /\ IF (index + 1) \notin DOMAIN inputs
     THEN /\ ret' = Ret("setSequence", 0, "AssertionError")
          /\ UNCHANGED <<inputs, version>>
     ELSE /\ version' = 2
          /\ inputs' = [inputs EXCEPT
                          ![index + 1].sequence = encodeSequence(delta, seconds)]
          /\ ret' = Ret("setSequence", 0, "returned")
  /\ hist' = SequenceArgs(index, delta, seconds)
  /\ UNCHANGED <<locktime, outputs, view, changeIndex, sel, pc, candidates, options>>

NextLock ==
  \/ \E h \in Locktimes : SetLocktime(h)
  \/ \E index \in 0 .. MaxInputs, delta \in Deltas, seconds \in BOOLEAN :
       SetSequence(index, delta, seconds)

SpecLock == InitLock /\ [][NextLock]_vars

\* C27: after setLocktime(h) the locktime is h and no input has the final
\* sequence: every input that had it has 0xfffffffe, every other input is
\* as it was, and so are the outputs, the view and changeIndex.
C27_LocktimeTakesEffect ==
  [][ret'.op = "setLocktime"
       => /\ locktime' = hist'.height
          /\ Len(inputs') = Len(inputs)
          /\ \A i \in 1 .. Len(inputs) :
               /\ inputs'[i].sequence # SEQUENCE_FINAL
               /\ inputs'[i] =
                    IF inputs[i].sequence = SEQUENCE_FINAL
                    THEN [inputs[i] EXCEPT !.sequence = Word(65535, 65534)]
                    ELSE inputs[i]
          /\ outputs' = outputs /\ view' = view
          /\ changeIndex' = changeIndex]_vars

\* C27 witness: setLocktime was called on two inputs, one of a sequence
\* that setSequence had encoded.
C27_Witness ==
  /\ ret = Ret("setLocktime", 0, "returned")
  /\ locktime = 120
  /\ version = 2
  /\ Len(inputs) = 2
  /\ inputs[1].sequence = Word(65535, 65534)
  /\ inputs[2].sequence = Word(64, 10)

\* C28 (as stated): the sequence setSequence encodes has, in height mode, no
\* bit outside the 16-bit value mask and, in seconds mode, the type flag
\* and no bit outside the type flag and the mask, for every 32-bit
\* locktime argument.
C28_SequenceBitLayout ==
  (ret = Ret("setSequence", 0, "returned")) =>
    /\ version = 2
    /\ IF hist.seconds
       THEN /\ inputs[hist.index + 1].sequence.hi = SEQUENCE_TYPE_FLAG.hi
            /\ inputs[hist.index + 1].sequence.lo
                 = ShiftRight(hist.delta, SEQUENCE_GRANULARITY).lo
       ELSE inputs[hist.index + 1].sequence = Word(0, hist.delta.lo)

(***************************************************************************)
(* Two funding calls on one MTX: the specification SpecOverlap.  fund is a *)
(* coroutine: it evaluates its guard, starts the coin selection and is     *)
(* suspended until the selection is settled; another call can be started   *)
(* in between.  pc and sel hold one entry per call.                        *)
(***************************************************************************)
\* The two calls of fund.
Calls == {"A", "B"}

\* The guard of fund taking no MTX as filled.
filledNever(ins) == FALSE

\* The guard of fund, negated: the MTX has inputs.
filled(ins) == Len(ins) # 0

\* The options of the calls: by age, the fee estimated or hard, taken from
\* the outputs or not.
OverlapOptions ==
  {o \in FundOptions :
     /\ o.selection = "age"
     /\ o.subtractFee \in {SubtractUnset, SubtractAny}
     /\ o.height = 0 - 1
     /\ o.confirmations = 0 - 1
     /\ o.maxFee = 0 - 1
     /\ o.rate = MIN_FEE
     /\ ~o.round}

\* The candidate lists of the calls: coins of distinct ages.
OverlapLists ==
  {q \in CandidateLists :
     \A i, j \in 1 .. Len(q) : q[i].height = q[j].height => i = j}

InitOverlap ==
  /\ inputs = <<>>
  /\ outputs \in OutputLists
  /\ view = {}
  /\ changeIndex = 0 - 1
  /\ sel = [c \in Calls |-> NoSelector]
  /\ pc = [c \in Calls |-> "idle"]
  /\ candidates \in OverlapLists
  /\ options \in OverlapOptions
  /\ ret = NoRet
  /\ locktime = 0
  /\ version = 1
  /\ hist = [outputs |-> outputs, order |-> <<>>, overlap |-> FALSE,
             adds |-> [c \in Calls |-> FALSE],
             changes |-> [c \in Calls |-> FALSE],
             result |-> [c \in Calls |-> "none"]]

\* The record of a call being started: the order of the calls, and whether
\* another call is suspended at that time.
Started(c) ==
  [hist EXCEPT !.order = Append(@, c),
               !.overlap = @ \/ \E d \in Calls \ {c} : pc[d] = "selecting"]

\* fund up to its suspension: the guard passed, the selection started.
FundCallOf(c, sorted) ==
  /\ pc[c] = "idle"
  /\ ~filled(inputs)
  /\ sel' = [sel EXCEPT ![c] = select(CoinSelector(inputs, outputs, options), sorted)]
  /\ pc' = [pc EXCEPT ![c] = "selecting"]
  /\ hist' = Started(c)
  /\ UNCHANGED <<locktime, version, inputs, outputs, view, changeIndex,
                 candidates, options, ret>>

\* fund stopped by its guard.
FundFilledOf(c) ==
  /\ pc[c] = "idle"
  /\ filled(inputs)
  /\ pc' = [pc EXCEPT ![c] = "failed"]
  /\ ret' = Ret("fund", 0, "TX is already filled.")
  /\ hist' = [Started(c) EXCEPT !.result[c] = "TX is already filled."]
  /\ UNCHANGED <<locktime, version, inputs, outputs, view, changeIndex, sel,
                 candidates, options>>

\* The selection of a call resumed with an estimated size.
SelectEstimateOf(c) ==
  /\ pc[c] = "selecting"
  /\ sel[c].state = "estimate"
  /\ sel' = [sel EXCEPT ![c] = estimateTurn(@)]
  /\ UNCHANGED <<locktime, version, inputs, outputs, view, changeIndex, pc,
                 candidates, options, ret, hist>>

\* fund resumed with the error of the selection.
FundRejectOf(c) ==
  /\ pc[c] = "selecting"
  /\ sel[c].state = "failed"
  /\ pc' = [pc EXCEPT ![c] = "failed"]
  /\ ret' = Ret("fund", 0, sel[c].error)
  /\ hist' = [hist EXCEPT !.result[c] = sel[c].error]
  /\ UNCHANGED <<locktime, version, inputs, outputs, view, changeIndex, sel,
                 candidates, options>>

\* The end of fund once the fee was subtracted: the change output and the
\* closing assertion.
FundFinishOf(c, outs) ==
  /\ outputs' = fundChange(outs, sel[c]).outputs
  /\ changeIndex' = fundChange(outs, sel[c]).changeIndex
  /\ IF mtxGetFee(inputs', view', outputs') = fundExpectedFee(sel[c], changeIndex')
     THEN /\ pc' = [pc EXCEPT ![c] = "funded"]
          /\ ret' = Ret("fund", 0, "ok")
          /\ hist' = [hist EXCEPT !.result[c] = "ok",
                                  !.adds[c] = Len(sel[c].chosen) > 0,
                                  !.changes[c] = changeIndex' # 0 - 1]
     ELSE /\ pc' = [pc EXCEPT ![c] = "failed"]
          /\ ret' = Ret("fund", 0, "AssertionError")
          /\ hist' = [hist EXCEPT !.result[c] = "AssertionError",
                                  !.adds[c] = Len(sel[c].chosen) > 0,
                                  !.changes[c] = changeIndex' # 0 - 1]

\* fund resumed with the selection: the inputs are added after those the
\* MTX holds by then, the fee is subtracted, the change output added.
FundFillOf(c) ==
  /\ pc[c] = "selecting"
  /\ sel[c].state = "selected"
  /\ inputs' = inputs \o fundInputs(sel[c])
  /\ view' = view \cup fundCoins(sel[c])
  /\ IF fundSubtract(outputs, sel[c]).ok
     THEN FundFinishOf(c, fundSubtract(outputs, sel[c]).outputs)
     ELSE /\ pc' = [pc EXCEPT ![c] = "failed"]
          /\ ret' = Ret("fund", 0, fundSubtract(outputs, sel[c]).error)
          /\ hist' = [hist EXCEPT !.result[c] = fundSubtract(outputs, sel[c]).error,
                                  !.adds[c] = Len(sel[c].chosen) > 0]
          /\ UNCHANGED <<outputs, changeIndex>>
  /\ UNCHANGED <<locktime, version, sel, candidates, options>>

NextOverlap ==
  \/ \E c \in Calls, sorted \in SortOutcomes(options.selection, candidates) :
       FundCallOf(c, sorted)
  \/ \E c \in Calls : FundFilledOf(c)
  \/ \E c \in Calls : SelectEstimateOf(c)
  \/ \E c \in Calls : FundRejectOf(c)
  \/ \E c \in Calls : FundFillOf(c)

SpecOverlap == InitOverlap /\ [][NextOverlap]_vars

\* Both calls have returned or thrown.
BothDone == \A c \in Calls : pc[c] \in {"funded", "failed"}

\* C32 (as stated): of two fund calls on one MTX, the second possibly
\* started while the first is suspended, at most one adds inputs.
C32_FundedAtMostOnce ==
  BothDone => Cardinality({c \in Calls : hist.adds[c]}) <= 1

\* C32 (amended): of two fund calls on one MTX, the second started after the
\* first has returned or thrown, at most one adds inputs and a change
\* output, and when the first added inputs the second fails with
\* 'TX is already filled.'.
C32_FundedAtMostOnceInTurn ==
  (BothDone /\ ~hist.overlap) =>
    /\ Cardinality({c \in Calls : hist.adds[c]}) <= 1
    /\ Cardinality({c \in Calls : hist.changes[c]}) <= 1
    /\ hist.adds[hist.order[1]] =>
         /\ hist.result[hist.order[2]] = "TX is already filled."
         /\ ~hist.adds[hist.order[2]]
         /\ ~hist.changes[hist.order[2]]

\* A second call started after the first had added inputs and a change
\* output.
C32_Witness ==
  /\ BothDone
  /\ ~hist.overlap
  /\ hist.result[hist.order[1]] = "ok"
  /\ hist.adds[hist.order[1]]
  /\ hist.changes[hist.order[1]]
  /\ hist.result[hist.order[2]] = "TX is already filled."

(***************************************************************************)
(* Coin selection step by step: the specifications SpecSelect and          *)
(* SpecSelectFair.  One step is one turn of the loop of                    *)
(* CoinSelector.fund, or the return of the size estimate selectEstimate    *)
(* waits for.  pc is the position within select: "idle", in the loop of    *)
(* fund called by selectHard ("fundHard"), by selectEstimate before its    *)
(* loop ("fundFirst") or within it ("fundLoop"), waiting for the size      *)
(* ("estimating"), or "done".                                              *)
(***************************************************************************)
\* The options of the selections: no fee subtraction, no rounding; by age
\* or an unknown strategy under every height and fee option, all coins at
\* the higher rate.
SelectOptions ==
  {o \in FundOptions :
     /\ o.subtractFee = SubtractUnset
     /\ ~o.round
     /\ \/ o.selection \in {"age", "oldest"}
        \/ /\ o.selection = "all"
           /\ o.rate # MIN_FEE}

\* A coin the MTX spends before the selection, and its input.
SpentCoin == Coin(0, 10000, fromPubkeyhash(1), 1, FALSE)

\* The list the caller holds shared with the selector.
slicedShared(own, written) == written

\* this.coins = coins.slice(): the list the caller holds, once the selector
\* has written to its list.
sliced(own, written) == own

\* this.tx = tx.clone(), a new MTX filled from the inputs and outputs of the
\* caller's: the inputs, outputs and view the caller holds, once the
\* selector has written to those of its transaction.
cloned(own, written) == own

\* What a step of the selection leaves of the caller's list and MTX.
CallerState ==
  /\ candidates' = sliced(candidates, sel'.coins)
  /\ inputs' = cloned(inputs, sel'.tx.inputs)
  /\ outputs' = cloned(outputs, sel'.tx.outputs)
  /\ view' = cloned(view, fundCoins(sel'))

InitSelect ==
  /\ inputs \in {<<>>, <<NewInput(SpentCoin.id)>>}
  /\ outputs \in OutputLists
  /\ view = IF inputs = <<>> THEN {} ELSE {SpentCoin}
  /\ changeIndex = 0 - 1
  /\ sel = NoSelector
  /\ pc = "idle"
  /\ candidates \in CandidateLists
  /\ options \in SelectOptions
  /\ ret = NoRet
  /\ locktime = 0
  /\ version = 1
  /\ hist = [examined |-> <<>>, turns |-> 0, calls |-> 0,
             candidates |-> candidates, inputs |-> inputs,
             outputs |-> outputs, view |-> view]

\* The positions within the loop of fund.
InFund == {"fundHard", "fundFirst", "fundLoop"}

\* this.index++ leaving the index as it is.
nextIndexStuck(s) == s.index

\* this.index++ in the loop of fund.
nextIndex(s) == s.index + 1

\* select: init, then the fee to start with, hard or initial.
SelectInit(sorted) ==
  /\ pc = "idle"
  /\ IF init(CoinSelector(inputs, outputs, options), sorted).state = "failed"
     THEN /\ sel' = init(CoinSelector(inputs, outputs, options), sorted)
          /\ pc' = "done"
          /\ UNCHANGED hist
     ELSE IF options.hardFee # 0 - 1
     THEN /\ sel' = [init(CoinSelector(inputs, outputs, options), sorted)
                       EXCEPT !.fee = IF options.hardFee > MAX_FEE THEN MAX_FEE
                                      ELSE options.hardFee]
          /\ pc' = "fundHard"
          /\ hist' = [hist EXCEPT !.calls = @ + 1]
     ELSE /\ sel' = [init(CoinSelector(inputs, outputs, options), sorted)
                       EXCEPT !.fee = MIN_FEE]
          /\ pc' = "fundFirst"
          /\ hist' = [hist EXCEPT !.calls = @ + 1]
  /\ CallerState
  /\ UNCHANGED <<locktime, version, changeIndex, options, ret>>

\* The test closing a turn of the loop of selectEstimate, and the end of
\* select when the loop is left.
LoopTest(s) ==
  IF ~isFull(s) /\ s.index < Len(s.coins)
  THEN /\ sel' = s
       /\ pc' = "estimating"
  ELSE /\ sel' = selectEnd(s)
       /\ pc' = "done"

\* fund returns to its caller: the end of select after selectHard, the
\* placeholder change output before the loop of selectEstimate, the test of
\* the loop within it.
FundReturns(s) ==
  IF pc = "fundHard"
  THEN /\ sel' = selectEnd(s)
       /\ pc' = "done"
  ELSE IF pc = "fundFirst"
  THEN /\ sel' = [s EXCEPT !.tx.outputs = Append(@, DummyChange(s)),
                           !.state = "estimate"]
       /\ pc' = "estimating"
  ELSE LoopTest(s)

\* One turn of the loop of fund: the coin at the index is taken, the index
\* advanced; a spendable coin is chosen, and the loop is left when the
\* selection is full (unless all coins are selected).
FundStep ==
  /\ pc \in InFund
  /\ sel.index < Len(sel.coins)
  /\ hist' = [hist EXCEPT !.examined = Append(@, sel.index)]
  /\ IF ~isSpendable(sel, sel.coins[sel.index + 1])
     THEN /\ sel' = [sel EXCEPT !.index = nextIndex(sel)]
          /\ pc' = pc
     ELSE IF stopsWhenFull(addCoin(sel, sel.coins[sel.index + 1]))
     THEN FundReturns([addCoin(sel, sel.coins[sel.index + 1])
                         EXCEPT !.index = nextIndex(sel)])
     ELSE /\ sel' = [addCoin(sel, sel.coins[sel.index + 1])
                       EXCEPT !.index = nextIndex(sel)]
          /\ pc' = pc
  /\ CallerState
  /\ UNCHANGED <<locktime, version, changeIndex, options, ret>>

\* The loop of fund is left with the coins exhausted.
FundExhausted ==
  /\ pc \in InFund
  /\ ~(sel.index < Len(sel.coins))
  /\ FundReturns(sel)
  /\ CallerState
  /\ UNCHANGED <<locktime, version, changeIndex, options, ret, hist>>

\* The size estimate returns: the fee is derived and checked against the
\* maximum, and more coins are taken when the selection is not full.
EstimateReturns ==
  /\ pc = "estimating"
  /\ IF sel.maxFee > 0 /\ getFee(sel, estimateSize(sel.tx)) > sel.maxFee
     THEN /\ sel' = [sel EXCEPT !.fee = getFee(sel, estimateSize(sel.tx)),
                                !.state = "failed", !.error = "Fee is too high."]
          /\ pc' = "done"
          /\ hist' = [hist EXCEPT !.turns = @ + 1]
     ELSE IF ~isFull([sel EXCEPT !.fee = getFee(sel, estimateSize(sel.tx))])
     THEN /\ sel' = [sel EXCEPT !.fee = getFee(sel, estimateSize(sel.tx))]
          /\ pc' = "fundLoop"
          /\ hist' = [hist EXCEPT !.turns = @ + 1, !.calls = @ + 1]
     ELSE /\ LoopTest([sel EXCEPT !.fee = getFee(sel, estimateSize(sel.tx))])
          /\ hist' = [hist EXCEPT !.turns = @ + 1]
  /\ CallerState
  /\ UNCHANGED <<locktime, version, changeIndex, options, ret>>

NextSelect ==
  \/ \E sorted \in SortOutcomes(options.selection, candidates) : SelectInit(sorted)
  \/ FundStep
  \/ FundExhausted
  \/ EstimateReturns

SpecSelect == InitSelect /\ [][NextSelect]_vars

\* The steps of select are taken when they can be: the code runs on, and
\* the size estimate returns.
SpecSelectFair ==
  /\ SpecSelect
  /\ WF_vars(\E sorted \in SortOutcomes(options.selection, candidates) :
               SelectInit(sorted))
  /\ WF_vars(FundStep)
  /\ WF_vars(FundExhausted)
  /\ WF_vars(EstimateReturns)

\* The positions of the coins chosen: those examined and spendable.
ChosenPositions ==
  {i \in 1 .. Len(sel.coins) :
     \E j \in 1 .. Len(hist.examined) :
       hist.examined[j] + 1 = i /\ isSpendable(sel, sel.coins[i])}

\* Every position was examined at most once, the index is within the list,
\* and the coins chosen are those at the spendable positions examined, each
\* once.
ExaminedOnce ==
  pc # "idle" =>
    /\ sel.index <= Len(sel.coins)
    /\ Len(hist.examined) = sel.index
    /\ \A j \in 1 .. Len(hist.examined) : hist.examined[j] = j - 1
    /\ Len(sel.chosen) = Cardinality(ChosenPositions)
    /\ \A i, j \in 1 .. Len(sel.chosen) :
         sel.chosen[i].id = sel.chosen[j].id => i = j

\* A turn of the loop of selectEstimate leaves the selection full or the
\* coins exhausted: the loop takes one turn.
LoopEnds == hist.turns <= 1 /\ (hist.turns = 1 => pc \in {"fundLoop", "done"})

\* C33: select terminates: every candidate is examined at most once (the
\* index only increases and stays within the list, no position is chosen
\* twice), a turn of the fee loop ends with the selection funded or the
\* candidates exhausted, and select reaches its end when the size estimate
\* returns.
C33_SelectTerminates ==
  /\ [](ExaminedOnce /\ LoopEnds)
  /\ [][pc # "idle" => sel'.index >= sel.index]_vars
  /\ <>(pc = "done")

\* A selection ended after the fee loop took more coins: fund was called a
\* second time and every candidate was examined.
C33_Witness ==
  /\ pc = "done"
  /\ sel.state = "selected"
  /\ hist.calls = 2
  /\ Len(hist.examined) = Len(candidates)
  /\ Len(sel.chosen) >= 2

====
